---------------------------- MODULE Spec2Model ----------------------------
(***************************************************************************)
(* Model of wind_udp_receiver (src/__init__.py, src/sensor.py):            *)
(* ModBusDataParser, UDPProtocol.datagram_received with the client         *)
(* registry known_clients and its get_client_status, UDPWindServer's       *)
(* start(), stop() and get_client_status(), and the integration's          *)
(* async_setup_entry / async_unload_entry with the sensor entities.        *)
(*                                                                         *)
(* Representation.  A datagram is a sequence of bytes (0..255).  A Python  *)
(* str is a sequence of code points, so that slicing, lower() and the `in` *)
(* substring test are computed on characters.  A JSON value is a tagged    *)
(* record [t |-> tag, v |-> payload]; a JSON object's payload is a         *)
(* function from keys (code point sequences) to values, as a Python dict.  *)
(***************************************************************************)
EXTENDS Integers, Sequences, FiniteSets, TLC

VARIABLES
    known_clients,  \* UDPProtocol.known_clients: address -> record, or NoClient
    events,         \* events handed to hass.bus.async_fire by the last call
    lastData,       \* bytes of the last datagram given to the code
    lastAddr,       \* its source address (ip, port); <<>> before the first
    fault,          \* which collaborator call raised during the last call
    propagated,     \* whether the last datagram_received let an exception out
    now,            \* the clock read by loop.time() and datetime.now()
    presult,        \* SpecParse: what the successive decoder calls on lastData returned
    _running,       \* UDPWindServer._running
    transport,      \* UDPWindServer.transport: "none", or the endpoint's state
    protocol,       \* UDPWindServer.protocol is not None
    _start_lock,    \* UDPWindServer._start_lock: its holder and its waiters
    tasks,          \* the start() and stop() calls in flight, each at its position
    status,         \* what the get_client_status call just made returned
    ever_recorded,  \* history: the addresses recorded since the server was made
    hass_data,      \* hass.data[DOMAIN]: entry id -> its server object and port
    services,       \* whether hass.services has get_device_status of the domain
    registries,     \* the UDPProtocol objects: object -> its known_clients
    sensors,        \* the sensor entities added to hass, per entry
    lastEntry,      \* SpecEntries: the entry whose listener got the last datagram
    config_entries  \* Home Assistant's state of each config entry

\* UDPWindServer's fields and the calls on it
server == <<_running, transport, protocol, _start_lock, tasks, status, ever_recorded>>

\* Home Assistant's side: the domain data, the service, the entities
hass == <<hass_data, services, registries, sensors, lastEntry, config_entries>>

vars == <<known_clients, events, lastData, lastAddr, fault, propagated, now, presult, server,
          hass>>

-----------------------------------------------------------------------------
(* Program constants (src/const.py) *)

MODBUS_DEVICE_ADDR == 128
MODBUS_FUNCTION_CODE == 3
MODBUS_DATA_LENGTH == 8
MODBUS_EXPECTED_LENGTH == 13
HEARTBEAT_DATA_LIMIT == 100

HEARTBEAT_INDICATORS ==
    << <<104, 101, 97, 114, 116, 98, 101, 97, 116>>,        \* 'heartbeat'
       <<112, 105, 110, 103>>,                              \* 'ping'
       <<97, 108, 105, 118, 101>>,                          \* 'alive'
       <<107, 101, 101, 112, 45, 97, 108, 105, 118, 101>>,  \* 'keep-alive'
       <<104, 101, 97, 114, 116, 95, 98, 101, 97, 116>>,    \* 'heart_beat'
       <<107, 101, 101, 112, 97, 108, 105, 118, 101>> >>    \* 'keepalive'

REGISTRATION_INDICATORS ==
    << <<114, 101, 103, 105, 115, 116, 101, 114>>,                      \* 'register'
       <<114, 101, 103, 105, 115, 116, 114, 97, 116, 105, 111, 110>>,   \* 'registration'
       <<99, 111, 110, 110, 101, 99, 116>>,                             \* 'connect'
       <<108, 111, 103, 105, 110>>,                                     \* 'login'
       <<100, 101, 118, 105, 99, 101, 95, 105, 110, 102, 111>>,         \* 'device_info'
       <<99, 108, 105, 101, 110, 116, 95, 105, 110, 102, 111>> >>       \* 'client_info'

-----------------------------------------------------------------------------
(* Python str operations on code point sequences *)

Min(a, b) == IF a < b THEN a ELSE b

\* s[lo:hi] with 0 <= lo: a Python slice never raises, it is clipped to the
\* length (0-based, hi exclusive).
Slice(s, lo, hi) == SubSeq(s, lo + 1, Min(hi, Len(s)))

\* str.lower() on one code point: ASCII A-Z and the Latin-1 capitals
\* (U+00C0..U+00DE except the multiplication sign U+00D7) move down by 32.
LowerChar(c) ==
    IF (c >= 65 /\ c <= 90) \/ (c >= 192 /\ c <= 222 /\ c # 215) THEN c + 32 ELSE c

Lower(s) == [i \in 1..Len(s) |-> LowerChar(s[i])]

\* `sub in s`
Contains(sub, s) ==
    \E i \in 0..(Len(s) - Len(sub)) : SubSeq(s, i + 1, i + Len(sub)) = sub

\* any(indicator in text for indicator in indicators)
AnyIndicatorIn(indicators, text) ==
    \E k \in 1..Len(indicators) : Contains(indicators[k], text)

-----------------------------------------------------------------------------
(* bytes.decode(encoding): [ok |-> decoded without error, text |-> str] *)

DecodeError == [ok |-> FALSE, text |-> <<>>]

IsCont(b) == b >= 128 /\ b <= 191

\* Number of bytes of the UTF-8 sequence starting at d[i], 0 when it is
\* ill-formed (the well-formed byte sequences of the Unicode standard).
Utf8SeqLen(d, i) ==
    LET b == d[i]
        n == Len(d) - i + 1
    IN  IF b < 128 THEN 1
        ELSE IF b >= 194 /\ b <= 223
            THEN IF n >= 2 /\ IsCont(d[i + 1]) THEN 2 ELSE 0
        ELSE IF b >= 224 /\ b <= 239
            THEN IF /\ n >= 3
                    /\ IsCont(d[i + 1])
                    /\ IsCont(d[i + 2])
                    /\ (b = 224 => d[i + 1] >= 160)
                    /\ (b = 237 => d[i + 1] <= 159)
                 THEN 3 ELSE 0
        ELSE IF b >= 240 /\ b <= 244
            THEN IF /\ n >= 4
                    /\ IsCont(d[i + 1])
                    /\ IsCont(d[i + 2])
                    /\ IsCont(d[i + 3])
                    /\ (b = 240 => d[i + 1] >= 144)
                    /\ (b = 244 => d[i + 1] <= 143)
                 THEN 4 ELSE 0
        ELSE 0

Utf8CodePoint(d, i, n) ==
    IF n = 1 THEN d[i]
    ELSE IF n = 2 THEN (d[i] - 192) * 64 + (d[i + 1] - 128)
    ELSE IF n = 3 THEN (d[i] - 224) * 4096 + (d[i + 1] - 128) * 64 + (d[i + 2] - 128)
    ELSE (d[i] - 240) * 262144 + (d[i + 1] - 128) * 4096
            + (d[i + 2] - 128) * 64 + (d[i + 3] - 128)

RECURSIVE Utf8From(_, _, _)
Utf8From(d, i, acc) ==
    IF i > Len(d) THEN [ok |-> TRUE, text |-> acc]
    ELSE LET n == Utf8SeqLen(d, i)
         IN  IF n = 0 THEN DecodeError
             ELSE Utf8From(d, i + n, Append(acc, Utf8CodePoint(d, i, n)))

\* bytes below 0x80 are one-byte sequences: an all-ASCII input is its own
\* decoding, found without walking the sequences.
Utf8Decode(d) ==
    IF \A i \in 1..Len(d) : d[i] < 128 THEN [ok |-> TRUE, text |-> d]
    ELSE Utf8From(d, 1, <<>>)

\* GBK and GB2312 are table codecs.  Modelled by their structure: a byte
\* below 0x80 is itself; a lead byte (GBK 0x81..0xFE, GB2312 0xA1..0xF7)
\* takes one trail byte (GBK 0x40..0xFE except 0x7F, GB2312 0xA1..0xFE) and
\* yields one non-ASCII character, written here as 65536 + 256*lead + trail;
\* anything else is a decode error.  The tables' unassigned pairs are not
\* modelled: no datagram of this model reaches a lead byte of either codec.
RECURSIVE DoubleByteFrom(_, _, _, _, _, _, _)
DoubleByteFrom(d, i, acc, leadLo, leadHi, trailLo, trailHi) ==
    IF i > Len(d) THEN [ok |-> TRUE, text |-> acc]
    ELSE IF d[i] < 128
        THEN DoubleByteFrom(d, i + 1, Append(acc, d[i]), leadLo, leadHi, trailLo, trailHi)
    ELSE IF /\ d[i] >= leadLo /\ d[i] <= leadHi
            /\ i + 1 <= Len(d)
            /\ d[i + 1] >= trailLo /\ d[i + 1] <= trailHi /\ d[i + 1] # 127
        THEN DoubleByteFrom(d, i + 2, Append(acc, 65536 + 256 * d[i] + d[i + 1]),
                            leadLo, leadHi, trailLo, trailHi)
    ELSE DecodeError

GbkDecode(d) == DoubleByteFrom(d, 1, <<>>, 129, 254, 64, 254)

Gb2312Decode(d) == DoubleByteFrom(d, 1, <<>>, 161, 247, 161, 254)

AsciiDecode(d) ==
    IF \A i \in 1..Len(d) : d[i] < 128 THEN [ok |-> TRUE, text |-> d] ELSE DecodeError

\* latin1 maps every byte to the code point of the same number: it cannot fail.
Latin1Decode(d) == [ok |-> TRUE, text |-> d]

\* UDPProtocol._try_text_decode: the first codec of
\* ['utf-8', 'gbk', 'gb2312', 'ascii', 'latin1'] that decodes without error;
\* ok = FALSE stands for the final `return None`.
_try_text_decode(data) ==
    IF Utf8Decode(data).ok THEN Utf8Decode(data)
    ELSE IF GbkDecode(data).ok THEN GbkDecode(data)
    ELSE IF Gb2312Decode(data).ok THEN Gb2312Decode(data)
    ELSE IF AsciiDecode(data).ok THEN AsciiDecode(data)
    ELSE IF Latin1Decode(data).ok THEN Latin1Decode(data)
    ELSE DecodeError

-----------------------------------------------------------------------------
(* JSON values, json.loads and json.dumps *)

JNone == [t |-> "null", v |-> 0]
JBool(b) == [t |-> IF b THEN "true" ELSE "false", v |-> 0]
JInt(n) == [t |-> "int", v |-> n]
JStr(s) == [t |-> "str", v |-> s]
JArr(a) == [t |-> "arr", v |-> a]
JObj(f) == [t |-> "obj", v |-> f]
EmptyDict == JObj(<<>>)

\* d[k] = v on a dict: a repeated key keeps the last value.
DictPut(f, k, v) == [x \in (DOMAIN f) \cup {k} |-> IF x = k THEN v ELSE f[x]]

\* bool(value): Python truthiness of a decoded JSON value.
Truthy(j) ==
    CASE j.t = "null" -> FALSE
      [] j.t = "false" -> FALSE
      [] j.t = "true" -> TRUE
      [] j.t = "int" -> j.v # 0
      [] j.t = "str" -> Len(j.v) > 0
      [] j.t = "arr" -> Len(j.v) > 0
      [] j.t = "obj" -> DOMAIN j.v # {}

ParseFail == [ok |-> FALSE, val |-> JNone, pos |-> 0]
ParseOk(val, pos) == [ok |-> TRUE, val |-> val, pos |-> pos]

IsWs(c) == c \in {32, 9, 10, 13}
IsDigit(c) == c >= 48 /\ c <= 57
At(s, i) == IF i >= 1 /\ i <= Len(s) THEN s[i] ELSE -1

RECURSIVE SkipWs(_, _)
SkipWs(s, i) == IF IsWs(At(s, i)) THEN SkipWs(s, i + 1) ELSE i

\* The closing quote of the string opened at s[i - 1]; 0 when the string is
\* unterminated or holds a control character.  Escapes are outside the
\* modelled grammar (a backslash ends the parse in error); no datagram of
\* this model holds one.
RECURSIVE StringEnd(_, _)
StringEnd(s, i) ==
    IF i > Len(s) \/ s[i] < 32 \/ s[i] = 92 THEN 0
    ELSE IF s[i] = 34 THEN i
    ELSE StringEnd(s, i + 1)

ParseString(s, i) ==
    LET e == StringEnd(s, i + 1)
    IN  IF e = 0 THEN ParseFail ELSE ParseOk(JStr(SubSeq(s, i + 1, e - 1)), e + 1)

RECURSIVE DigitsEnd(_, _)
DigitsEnd(s, i) == IF IsDigit(At(s, i)) THEN DigitsEnd(s, i + 1) ELSE i

RECURSIVE DigitsValue(_, _, _, _)
DigitsValue(s, i, e, acc) ==
    IF i >= e THEN acc ELSE DigitsValue(s, i + 1, e, acc * 10 + (s[i] - 48))

\* -?(0|[1-9][0-9]*): the integers of the JSON number grammar.  Fractions
\* and exponents are outside the modelled grammar (they end the parse in
\* error); no datagram of this model holds one.
ParseNumber(s, i) ==
    LET neg == At(s, i) = 45
        b == IF neg THEN i + 1 ELSE i
        e == IF At(s, b) = 48 THEN b + 1 ELSE DigitsEnd(s, b)
    IN  IF e = b \/ At(s, e) \in {46, 69, 101} THEN ParseFail
        ELSE ParseOk(JInt(IF neg THEN 0 - DigitsValue(s, b, e, 0)
                          ELSE DigitsValue(s, b, e, 0)), e)

ParseLiteral(s, i) ==
    IF SubSeq(s, i, Min(i + 3, Len(s))) = <<116, 114, 117, 101>>           \* 'true'
        THEN ParseOk(JBool(TRUE), i + 4)
    ELSE IF SubSeq(s, i, Min(i + 4, Len(s))) = <<102, 97, 108, 115, 101>>  \* 'false'
        THEN ParseOk(JBool(FALSE), i + 5)
    ELSE IF SubSeq(s, i, Min(i + 3, Len(s))) = <<110, 117, 108, 108>>      \* 'null'
        THEN ParseOk(JNone, i + 4)
    ELSE ParseFail

RECURSIVE ParseValue(_, _)
RECURSIVE ParseMembers(_, _, _)
RECURSIVE ParseElements(_, _, _)

\* i is at the first non-blank character after '{' or after a ','.
ParseMembers(s, i, acc) ==
    IF At(s, i) # 34 THEN ParseFail
    ELSE LET key == ParseString(s, i)
         IN  IF ~key.ok THEN ParseFail
             ELSE LET c == SkipWs(s, key.pos)
                  IN  IF At(s, c) # 58 THEN ParseFail
                      ELSE LET val == ParseValue(s, SkipWs(s, c + 1))
                           IN  IF ~val.ok THEN ParseFail
                               ELSE LET m == SkipWs(s, val.pos)
                                        d == DictPut(acc, key.val.v, val.val)
                                    IN  IF At(s, m) = 125 THEN ParseOk(JObj(d), m + 1)
                                        ELSE IF At(s, m) = 44
                                            THEN ParseMembers(s, SkipWs(s, m + 1), d)
                                        ELSE ParseFail

\* i is at the first non-blank character after '[' or after a ','.
ParseElements(s, i, acc) ==
    LET val == ParseValue(s, i)
    IN  IF ~val.ok THEN ParseFail
        ELSE LET m == SkipWs(s, val.pos)
                 a == Append(acc, val.val)
             IN  IF At(s, m) = 93 THEN ParseOk(JArr(a), m + 1)
                 ELSE IF At(s, m) = 44 THEN ParseElements(s, SkipWs(s, m + 1), a)
                 ELSE ParseFail

ParseValue(s, i) ==
    LET c == At(s, i)
    IN  IF c = 34 THEN ParseString(s, i)
        ELSE IF c = 123
            THEN LET j == SkipWs(s, i + 1)
                 IN  IF At(s, j) = 125 THEN ParseOk(EmptyDict, j + 1)
                     ELSE ParseMembers(s, j, <<>>)
        ELSE IF c = 91
            THEN LET j == SkipWs(s, i + 1)
                 IN  IF At(s, j) = 93 THEN ParseOk(JArr(<<>>), j + 1)
                     ELSE ParseElements(s, j, <<>>)
        ELSE IF c = 45 \/ IsDigit(c) THEN ParseNumber(s, i)
        ELSE ParseLiteral(s, i)

\* json.loads(text): ok = FALSE stands for json.JSONDecodeError.
json_loads(text) ==
    LET r == ParseValue(text, SkipWs(text, 1))
    IN  IF r.ok /\ SkipWs(text, r.pos) = Len(text) + 1
        THEN [ok |-> TRUE, val |-> r.val]
        ELSE [ok |-> FALSE, val |-> JNone]

\* str(n) for n >= 0
RECURSIVE IntStr(_)
IntStr(n) == IF n < 10 THEN <<48 + n>> ELSE Append(IntStr(n \div 10), 48 + (n % 10))

\* datetime.now().isoformat() read at whole second t of the model clock:
\* "2024-01-01T00:00:SS" (isoformat leaves the fraction out when it is zero).
IsoFormat(t) ==
    <<50, 48, 50, 52, 45, 48, 49, 45, 48, 49, 84, 48, 48, 58, 48, 48, 58>>  \* '2024-01-01T00:00:'
        \o <<48 + (t \div 10), 48 + (t % 10)>>

-----------------------------------------------------------------------------
(* ModBusDataParser.  A call returns a value or raises:                     *)
(* [raised |-> BOOLEAN, value |-> ...].                                     *)

Return(v) == [raised |-> FALSE, value |-> v]
Raise == [raised |-> TRUE, value |-> FALSE]

\* The Optional[str] of the parser and of the decoder: None or a str.
None == [some |-> FALSE, text |-> <<>>]
Some(text) == [some |-> TRUE, text |-> text]

\* data[i] (0-based) raises IndexError past the end.
HasIndex(data, i) == i < Len(data)
Byte(data, i) == data[i + 1]

\* The sum of the bytes before the checksum, as two bytes, high byte first
SumOfBytes(data) ==
    LET n == data[1] + data[2] + data[3] + data[4] + data[5] + data[6] + data[7]
                 + data[8] + data[9] + data[10] + data[11]
    IN  <<(n \div 256) % 256, n % 256>>

\* Variant of _is_standard_modbus that also verifies the last two bytes, as
\* the sum of the bytes before them.
_is_standard_modbus_verified(data) ==
    IF Len(data) < 5 THEN Return(FALSE)
    ELSE IF Byte(data, 0) = MODBUS_DEVICE_ADDR /\ Byte(data, 1) = MODBUS_FUNCTION_CODE
        THEN Return(/\ Len(data) = 3 + Byte(data, 2) + 2
                    /\ Byte(data, 2) = MODBUS_DATA_LENGTH
                    /\ SubSeq(data, 12, 13) = SumOfBytes(data))
    ELSE Return(FALSE)

\* Variant of _is_standard_modbus that accepts any declared data length
\* consistent with the total length.
_is_standard_modbus_any_length(data) ==
    IF Len(data) < 5 THEN Return(FALSE)
    ELSE IF Byte(data, 0) = MODBUS_DEVICE_ADDR /\ Byte(data, 1) = MODBUS_FUNCTION_CODE
        THEN Return(Len(data) = 3 + Byte(data, 2) + 2)
    ELSE Return(FALSE)

\* ModBusDataParser._is_standard_modbus
_is_standard_modbus(data) ==
    IF Len(data) < 5 THEN Return(FALSE)
    ELSE IF ~HasIndex(data, 0) \/ ~HasIndex(data, 1) THEN Raise
    ELSE IF Byte(data, 0) = MODBUS_DEVICE_ADDR /\ Byte(data, 1) = MODBUS_FUNCTION_CODE
        THEN IF Len(data) >= 3
             THEN IF ~HasIndex(data, 2) THEN Raise
                  ELSE LET data_length == Byte(data, 2)
                           expected_length == 3 + data_length + 2
                       IN  Return(Len(data) = expected_length
                                  /\ data_length = MODBUS_DATA_LENGTH)
             ELSE Return(FALSE)
    ELSE Return(FALSE)

\* int.from_bytes(b, 'big')
RECURSIVE FromBytesBig(_)
FromBytesBig(b) ==
    IF Len(b) = 0 THEN 0
    ELSE 256 * FromBytesBig(SubSeq(b, 1, Len(b) - 1)) + b[Len(b)]

\* Variant of _extract_wind_values that reads the registers low byte first.
_extract_wind_values_little_endian(register_data) ==
    [wind_speed_raw      |-> FromBytesBig(<<register_data[2], register_data[1]>>),
     wind_level          |-> FromBytesBig(<<register_data[4], register_data[3]>>),
     wind_direction_raw  |-> FromBytesBig(<<register_data[6], register_data[5]>>),
     wind_direction_code |-> FromBytesBig(<<register_data[8], register_data[7]>>)]

\* ModBusDataParser._extract_wind_values
_extract_wind_values(register_data) ==
    [wind_speed_raw      |-> FromBytesBig(Slice(register_data, 0, 2)),
     wind_level          |-> FromBytesBig(Slice(register_data, 2, 4)),
     wind_direction_raw  |-> FromBytesBig(Slice(register_data, 4, 6)),
     wind_direction_code |-> FromBytesBig(Slice(register_data, 6, 8))]

\* Variant of _build_wind_json that puts the clock into wind_data as well.
_build_wind_json_stamped_inside(wind_values, t) ==
    << << <<119, 105, 110, 100, 95, 100, 97, 116, 97>>,            \* 'wind_data'
          << << <<48>>, wind_values.wind_speed_raw >>,             \* '0'
             << <<49>>, wind_values.wind_level >>,                 \* '1'
             << <<50>>, wind_values.wind_direction_raw >>,         \* '2'
             << <<51>>, wind_values.wind_direction_code >>,        \* '3'
             << <<116>>, t >> >> >>,                               \* 't'
       << <<116, 105, 109, 101, 115, 116, 97, 109, 112>>,          \* 'timestamp'
          IsoFormat(t) >> >>

\* ModBusDataParser._build_wind_json: the dict in insertion order, as
\* <<key, value>> pairs; datetime.now() is read at clock t.
_build_wind_json(wind_values, t) ==
    << << <<119, 105, 110, 100, 95, 100, 97, 116, 97>>,            \* 'wind_data'
          << << <<48>>, wind_values.wind_speed_raw >>,             \* '0'
             << <<49>>, wind_values.wind_level >>,                 \* '1'
             << <<50>>, wind_values.wind_direction_raw >>,         \* '2'
             << <<51>>, wind_values.wind_direction_code >> >> >>,  \* '3'
       << <<116, 105, 109, 101, 115, 116, 97, 109, 112>>,          \* 'timestamp'
          IsoFormat(t) >> >>

\* Variant of DumpsStr that writes a str as repr() does, in single quotes.
DumpsStr_repr(s) == <<39>> \o s \o <<39>>

\* json.dumps of a str without characters to escape
DumpsStr(s) == <<34>> \o s \o <<34>>

\* "k": n, "k": n, ...
RECURSIVE DumpsIntItems(_)
DumpsIntItems(items) ==
    IF Len(items) = 0 THEN <<>>
    ELSE LET item == DumpsStr(items[1][1]) \o <<58, 32>> \o IntStr(items[1][2])
         IN  IF Len(items) = 1 THEN item
             ELSE item \o <<44, 32>> \o DumpsIntItems(Tail(items))

\* json.dumps(wind_json) with the default separators ', ' and ': ':
\* {"wind_data": {"0": v0, "1": v1, "2": v2, "3": v3}, "timestamp": "..."}
json_dumps(wind_json) ==
    <<123>> \o DumpsStr(wind_json[1][1]) \o <<58, 32>>
        \o <<123>> \o DumpsIntItems(wind_json[1][2]) \o <<125>>
        \o <<44, 32>> \o DumpsStr(wind_json[2][1]) \o <<58, 32>>
        \o DumpsStr(wind_json[2][2]) \o <<125>>

\* ModBusDataParser._parse_register_data
_parse_register_data(register_data, t) ==
    IF Len(register_data) < 8 THEN Raise
    ELSE Return(Some(json_dumps(_build_wind_json(_extract_wind_values(register_data), t))))

\* ModBusDataParser._parse_standard_modbus: its try/except turns every
\* exception of the body into None.
_parse_standard_modbus(data, t) ==
    LET body == IF Len(data) < MODBUS_EXPECTED_LENGTH THEN Return(None)
                ELSE _parse_register_data(Slice(data, 3, 11), t)
    IN  IF body.raised THEN Return(None) ELSE body

\* ModBusDataParser.parse_modbus_data
parse_modbus_data(data, t) ==
    LET std == _is_standard_modbus(data)
    IN  IF std.raised THEN Raise
        ELSE IF std.value THEN _parse_standard_modbus(data, t)
        ELSE Return(None)

-----------------------------------------------------------------------------
(* UDPProtocol *)

\* Variant of _decode_data that tries the text codecs before the frame parser.
_decode_data_text_first(data, t) ==
    LET dec == _try_text_decode(data)
    IN  IF dec.ok THEN Return(Some(dec.text)) ELSE parse_modbus_data(data, t)

\* UDPProtocol._decode_data: `if modbus_result:` is false for None and for ''.
_decode_data(data, t) ==
    LET modbus_result == parse_modbus_data(data, t)
    IN  IF modbus_result.raised THEN Raise
        ELSE IF modbus_result.value.some /\ Len(modbus_result.value.text) > 0
            THEN modbus_result
        ELSE LET dec == _try_text_decode(data)
             IN  Return(IF dec.ok THEN Some(dec.text) ELSE None)

\* Variant of _is_text_packet that tests the heartbeat keywords only.
_is_text_packet_heartbeat_only(data) ==
    AnyIndicatorIn(HEARTBEAT_INDICATORS, Lower(data))

\* UDPProtocol._is_text_packet
_is_text_packet(data) ==
    AnyIndicatorIn(HEARTBEAT_INDICATORS \o REGISTRATION_INDICATORS, Lower(data))

-----------------------------------------------------------------------------
(* Inputs of the model *)

MaxTime == 1
Times == 0..MaxTime

\* Source addresses (ip, port) of the datagrams
Addrs == << <<"10.0.0.5", 5000>>, <<"10.0.0.5", 5001>> >>

\* Collaborator calls that may raise during one datagram_received call:
\* "time" is asyncio.get_event_loop().time(), "fire" is hass.bus.async_fire.
Faults == <<"none", "time", "fire">>

\* n times 'x'
Pad(n) == [i \in 1..n |-> 120]

Q_WIND == <<123, 34, 119, 105, 110, 100, 95, 100, 97, 116, 97, 34, 58>>  \* '{"wind_data":'
Q_PING == <<112, 105, 110, 103>>                                         \* 'ping'

\* The datagrams of the model, as lists.

\* Valid binary telemetry frames
Frames ==
    << <<128, 3, 8, 0, 100, 0, 3, 0, 90, 0, 2, 170, 187>>,     \* 80 03 08 0064 0003 005A 0002 AA BB
      <<128, 3, 8, 0, 0, 0, 0, 0, 0, 0, 0, 0, 0>>,             \* all registers 0
      <<128, 3, 8>> \o REGISTRATION_INDICATORS[1] \o <<112, 105>> >>  \* registers 'register', checksum 'pi'

\* Byte sequences that fail one check of the frame format
NearFrames ==
    << <<128, 3, 8, 0, 100, 0, 3, 0, 90, 0, 2, 170>>,          \* 12 bytes
      <<128, 3, 5, 0, 100, 0, 3, 0, 90, 0, 2, 18, 52>>,       \* declared length 5, 13 bytes
      <<128, 3, 4>> \o Q_PING \o <<18, 52>> >>  \* declared length 4, payload 'ping'

Q_PING_OK == <<80, 73, 78, 71, 45, 79, 75>>                              \* 'PING-OK'
Q_REGISTER == <<80, 108, 101, 97, 115, 101, 32, 82, 101, 103, 105, 115, 116,
                101, 114, 32, 100, 101, 118, 105, 99, 101>>              \* 'Please Register device'

\* Control text
ControlTexts ==
    << Q_PING,
       Q_PING_OK \o Pad(HEARTBEAT_DATA_LIMIT - 6),                         \* 101 characters
       Q_REGISTER \o Pad(HEARTBEAT_DATA_LIMIT - 21),                       \* 101 characters
       Q_PING \o <<32, 114, 101, 103, 105, 115, 116, 101, 114>>,           \* 'ping register'
       Q_WIND \o <<123, 34, 48, 34, 58, 53, 48, 125, 44, 34, 99, 109, 100,
                   34, 58, 34, 112, 105, 110, 103, 34, 125>>,              \* ..{"0":50},"cmd":"ping"}
       Q_WIND \o <<123, 34, 48, 34, 58, 49, 125, 44, 34, 100, 101, 118, 105,
                   99, 101, 95, 105, 110, 102, 111, 34, 58, 49, 125>> >>   \* ..{"0":1},"device_info":1}

\* JSON telemetry and other text
OtherTexts ==
    << Q_WIND \o <<123, 34, 48, 34, 58, 53, 48, 44, 34, 49, 34, 58, 49, 44, 34, 50,
                  34, 58, 48, 44, 34, 51, 34, 58, 48, 125, 125>>,  \* ..{"0":50,"1":1,"2":0,"3":0}}
      Q_WIND \o <<123, 34, 48, 34, 58, 55, 125, 44, 34, 116, 105, 109, 101, 115, 116,
                  97, 109, 112, 34, 58, 34, 116, 49, 34, 125>>,    \* ..{"0":7},"timestamp":"t1"}
      Q_WIND \o <<123, 34, 48, 34, 58, 34, 97, 34, 125, 125>>,     \* ..{"0":"a"}}
      Q_WIND \o <<53, 125>>,                                       \* ..5}
      Q_WIND \o <<123, 125, 125>>,                                 \* ..{}}
      Q_WIND \o <<48, 125>>,                                       \* ..0}
      Q_WIND \o <<123, 34, 48, 34, 58, 53, 48, 125>>,              \* ..{"0":50}   (unclosed)
      <<123, 34, 120, 34, 58, 49, 125>>,                           \* '{"x":1}'
      <<91, 49, 44, 50, 93>>,                                      \* '[1,2]'
      <<104, 101, 108, 108, 111>>,                                 \* 'hello'
      <<>> >>  \* the empty datagram

Datagrams == Frames \o NearFrames \o ControlTexts \o OtherTexts

-----------------------------------------------------------------------------
(* UDPProtocol handlers.  No handler reads known_clients: a handler is     *)
(* modelled by what it does, in order:                                      *)
(*   [writes |-> the assignments known_clients[addr] = client_info,         *)
(*    events |-> the events given to hass.bus.async_fire,                   *)
(*    exc    |-> whether it raised].                                        *)

Out(writes, evs, exc) == [writes |-> writes, events |-> evs, exc |-> exc]
Nothing == Out(<<>>, <<>>, FALSE)
Raised == Out(<<>>, <<>>, TRUE)

\* a; b -- b runs only when a did not raise
Then(a, b) == IF a.exc THEN a ELSE Out(a.writes \o b.writes, a.events \o b.events, b.exc)

\* try: body / except Exception: log
Caught(body) == Out(body.writes, body.events, FALSE)

\* dict.update / dict(...) on records
DictUpdate(r, e) ==
    [k \in (DOMAIN r) \cup (DOMAIN e) |-> IF k \in DOMAIN e THEN e[k] ELSE r[k]]

\* dict.get(key, default) on a JSON object
DictGet(obj, key, default) == IF key \in DOMAIN obj.v THEN obj.v[key] ELSE default

\* f"{addr[0]}:{addr[1]}"
AddrStr(addr) == addr[1] \o ":" \o ToString(addr[2])

\* Variant of _update_client_status that does not merge extra_data.
_update_client_status_without_extra(addr, client_type, extra_data, t, flt) ==
    IF flt = "time" THEN Raised
    ELSE LET base == [last_seen |-> t, type |-> client_type]
             client_info ==
                 IF client_type = "heartbeat"
                     THEN DictUpdate(base, [last_heartbeat |-> t])
                 ELSE IF client_type = "registration"
                     THEN DictUpdate(base, [last_registration |-> t])
                 ELSE base
         IN  Out(<< <<addr, client_info>> >>, <<>>, FALSE)

\* UDPProtocol._update_client_status; extra_data None is the empty record.
_update_client_status(addr, client_type, extra_data, t, flt) ==
    IF flt = "time" THEN Raised
    ELSE LET current_time == t
             base == [last_seen |-> current_time, type |-> client_type]
             with_extra == IF DOMAIN extra_data # {} THEN DictUpdate(base, extra_data)
                           ELSE base
             client_info ==
                 IF client_type = "heartbeat"
                     THEN DictUpdate(with_extra, [last_heartbeat |-> current_time])
                 ELSE IF client_type = "registration"
                     THEN DictUpdate(with_extra, [last_registration |-> current_time])
                 ELSE with_extra
         IN  Out(<< <<addr, client_info>> >>, <<>>, FALSE)

\* hass.bus.async_fire(f'{DOMAIN}_event', event_data)
async_fire(event_data, flt) ==
    IF flt = "fire" THEN Raised ELSE Out(<<>>, <<event_data>>, FALSE)

\* UDPProtocol._fire_wind_data_event
_fire_wind_data_event(wind_data, timestamp, addr, flt) ==
    async_fire([event_type |-> "wind_data_received", wind_data |-> wind_data,
                timestamp |-> timestamp, source_addr |-> addr], flt)

\* Variant of _fire_heartbeat_event that sends the whole text.
_fire_heartbeat_event_untruncated(data, addr, t, flt) ==
    async_fire([event_type |-> "device_heartbeat", device_addr |-> addr,
                heartbeat_data |-> data, timestamp |-> t], flt)

\* UDPProtocol._fire_heartbeat_event
_fire_heartbeat_event(data, addr, t, flt) ==
    async_fire([event_type |-> "device_heartbeat", device_addr |-> addr,
                heartbeat_data |-> Slice(data, 0, HEARTBEAT_DATA_LIMIT),
                timestamp |-> t], flt)

\* UDPProtocol._fire_registration_event
_fire_registration_event(data, addr, t, flt) ==
    async_fire([event_type |-> "device_registered", device_addr |-> addr,
                registration_data |-> data, timestamp |-> t], flt)

\* Variant of _handle_heartbeat that records the sender and fires nothing.
_handle_heartbeat_silent(data, addr, t, flt) ==
    _update_client_status(addr, "heartbeat", <<>>, t, flt)

\* UDPProtocol._handle_heartbeat
_handle_heartbeat(data, addr, t, flt) ==
    Then(_update_client_status(addr, "heartbeat", <<>>, t, flt),
         _fire_heartbeat_event(data, addr, t, flt))

\* UDPProtocol._handle_registration
_handle_registration(data, addr, t, flt) ==
    Then(_update_client_status(addr, "registration", [registration_data |-> data], t, flt),
         _fire_registration_event(data, addr, t, flt))

\* Variant of _handle_text_packet with `if` for `elif`.
_handle_text_packet_both(data, addr, t, flt) ==
    LET data_lower == Lower(data)
        heartbeat == IF AnyIndicatorIn(HEARTBEAT_INDICATORS, data_lower)
                         THEN _handle_heartbeat(data, addr, t, flt)
                     ELSE Nothing
    IN  IF AnyIndicatorIn(REGISTRATION_INDICATORS, data_lower)
            THEN Then(heartbeat, _handle_registration(data, addr, t, flt))
        ELSE heartbeat

\* Variant of _handle_text_packet that tests the registration keywords first.
_handle_text_packet_registration_first(data, addr, t, flt) ==
    LET data_lower == Lower(data)
    IN  IF AnyIndicatorIn(REGISTRATION_INDICATORS, data_lower)
            THEN _handle_registration(data, addr, t, flt)
        ELSE IF AnyIndicatorIn(HEARTBEAT_INDICATORS, data_lower)
            THEN _handle_heartbeat(data, addr, t, flt)
        ELSE Nothing

\* UDPProtocol._handle_text_packet
_handle_text_packet(data, addr, t, flt) ==
    LET data_lower == Lower(data)
    IN  IF AnyIndicatorIn(HEARTBEAT_INDICATORS, data_lower)
            THEN _handle_heartbeat(data, addr, t, flt)
        ELSE IF AnyIndicatorIn(REGISTRATION_INDICATORS, data_lower)
            THEN _handle_registration(data, addr, t, flt)
        ELSE Nothing

\* x / 10.0 is defined for int and bool and raises TypeError otherwise.
IsNumber(j) == j.t \in {"int", "true", "false"}

\* UDPProtocol._log_wind_data: raises when wind_data has no .get or when
\* slot "0" or "2" cannot be divided.
_log_wind_data(wind_data) ==
    IF \/ wind_data.t # "obj"
       \/ ~IsNumber(DictGet(wind_data, <<48>>, JInt(0)))
       \/ ~IsNumber(DictGet(wind_data, <<50>>, JInt(0)))
    THEN Raised ELSE Nothing

\* Variant of _handle_wind_data_packet that logs the wind data before it
\* fires the event.
_handle_wind_data_packet_log_first(data, addr, t, flt) ==
    LET json_data == json_loads(data)
    IN  Caught(
            IF ~json_data.ok THEN Raised
            ELSE IF json_data.val.t # "obj" THEN Raised
            ELSE LET wind_data ==
                         DictGet(json_data.val,
                                 <<119, 105, 110, 100, 95, 100, 97, 116, 97>>, EmptyDict)
                     timestamp ==
                         DictGet(json_data.val,
                                 <<116, 105, 109, 101, 115, 116, 97, 109, 112>>, JNone)
                 IN  IF ~Truthy(wind_data) THEN Nothing
                     ELSE Then(_update_client_status(addr, "wind_sensor", <<>>, t, flt),
                               Then(_log_wind_data(wind_data),
                                    _fire_wind_data_event(wind_data, timestamp, addr, flt))))

\* Variant of _handle_wind_data_packet that records the client before it
\* looks at wind_data.
_handle_wind_data_packet_update_first(data, addr, t, flt) ==
    LET json_data == json_loads(data)
    IN  Caught(
            IF ~json_data.ok THEN Raised
            ELSE IF json_data.val.t # "obj" THEN Raised
            ELSE LET wind_data ==
                         DictGet(json_data.val,
                                 <<119, 105, 110, 100, 95, 100, 97, 116, 97>>, EmptyDict)
                     timestamp ==
                         DictGet(json_data.val,
                                 <<116, 105, 109, 101, 115, 116, 97, 109, 112>>, JNone)
                 IN  Then(_update_client_status(addr, "wind_sensor", <<>>, t, flt),
                          IF ~Truthy(wind_data) THEN Nothing
                          ELSE Then(_fire_wind_data_event(wind_data, timestamp, addr, flt),
                                    _log_wind_data(wind_data))))

\* UDPProtocol._handle_wind_data_packet: both except clauses end the call
\* normally, keeping what was done before the exception.
_handle_wind_data_packet(data, addr, t, flt) ==
    LET json_data == json_loads(data)
    IN  Caught(
            IF ~json_data.ok THEN Raised                      \* json.JSONDecodeError
            ELSE IF json_data.val.t # "obj" THEN Raised       \* no .get: AttributeError
            ELSE LET wind_data ==
                         DictGet(json_data.val,
                                 <<119, 105, 110, 100, 95, 100, 97, 116, 97>>,   \* 'wind_data'
                                 EmptyDict)
                     timestamp ==
                         DictGet(json_data.val,
                                 <<116, 105, 109, 101, 115, 116, 97, 109, 112>>, \* 'timestamp'
                                 JNone)
                 IN  IF ~Truthy(wind_data) THEN Nothing
                     ELSE Then(_update_client_status(addr, "wind_sensor", <<>>, t, flt),
                               Then(_fire_wind_data_event(wind_data, timestamp, addr, flt),
                                    _log_wind_data(wind_data))))

\* Variant of datagram_received without its try/except.
datagram_received_uncaught(data, addr, t, flt) ==
    LET addr_str == AddrStr(addr)
        decoded_data == _decode_data(data, t)
    IN  IF decoded_data.raised THEN Raised
        ELSE IF ~decoded_data.value.some THEN Nothing
        ELSE IF _is_text_packet(decoded_data.value.text)
            THEN _handle_text_packet(decoded_data.value.text, addr_str, t, flt)
        ELSE _handle_wind_data_packet(decoded_data.value.text, addr_str, t, flt)

\* UDPProtocol.datagram_received: `except Exception` ends the call normally.
datagram_received(data, addr, t, flt) ==
    LET addr_str == AddrStr(addr)
        decoded_data == _decode_data(data, t)
    IN  Caught(
            IF decoded_data.raised THEN Raised
            ELSE IF ~decoded_data.value.some THEN Nothing
            ELSE IF _is_text_packet(decoded_data.value.text)
                THEN _handle_text_packet(decoded_data.value.text, addr_str, t, flt)
            ELSE _handle_wind_data_packet(decoded_data.value.text, addr_str, t, flt))

\* Variant of ApplyWrites that merges each write into the record it finds.
RECURSIVE ApplyWrites_merging(_, _)
ApplyWrites_merging(clients, writes) ==
    IF Len(writes) = 0 THEN clients
    ELSE LET addr == writes[1][1]
             merged == IF addr \in DOMAIN clients
                           THEN DictUpdate(clients[addr], writes[1][2])
                       ELSE writes[1][2]
         IN  ApplyWrites_merging(DictPut(clients, addr, merged), Tail(writes))

\* self.known_clients[addr] = client_info, for each write in order
RECURSIVE ApplyWrites(_, _)
ApplyWrites(clients, writes) ==
    IF Len(writes) = 0 THEN clients
    ELSE ApplyWrites(DictPut(clients, writes[1][1], writes[1][2]), Tail(writes))

-----------------------------------------------------------------------------
(* The listener: datagrams arrive one at a time and time passes.           *)

\* The names of the start() and stop() calls that may be in flight
Tasks == {"t1", "t2"}

\* A call that is not in flight.  unclosed counts the sockets the call made
\* and has neither closed nor given to a transport; attached counts those it
\* gave to a transport.
Idle == [op |-> "none", pc |-> "idle", attempt |-> 0, retry_delay |-> 0,
         total_waited |-> 0, failures |-> <<>>, sleeps |-> <<>>, binds |-> 0,
         unclosed |-> 0, attached |-> 0, result |-> "none"]

\* get_client_status has not just been called
NoCall == [called |-> FALSE, result |-> <<>>]

\* The lock is free and nobody waits for it
Unlocked == [holder |-> "none", waiters |-> <<>>]

\* The config entries and the UDPProtocol objects a registry can live in
Entries == {"e1", "e2"}
Pids == 1..(Cardinality(Entries) + 1)

\* No entity of the entry is in hass.  wind_speed is the value of the
\* WindSpeedSensor (<<>> is None); status, _last_activity (<<>> is None, or
\* <<t>>) and minutes_offline are the DeviceStatusSensor: its value is
\* "waiting", "online", or "offline" with the minutes it names.
NoSensors == [added |-> FALSE, wind_speed |-> <<>>, status |-> "waiting",
              _last_activity |-> <<>>, minutes_offline |-> 0]

\* Home Assistant before any entry is set up
NoEntries ==
    /\ hass_data = <<>>
    /\ services = FALSE
    /\ registries = [p \in Pids |-> <<>>]
    /\ sensors = [e \in Entries |-> NoSensors]
    /\ lastEntry = "none"
    /\ config_entries = [e \in Entries |-> "not_loaded"]

\* UDPWindServer after a start() that succeeded: the endpoint delivers
\* datagrams to the protocol.
Listening ==
    /\ _running = TRUE
    /\ transport = "open"
    /\ protocol = TRUE
    /\ _start_lock = Unlocked
    /\ tasks = [i \in Tasks |-> Idle]
    /\ status = NoCall
    /\ ever_recorded = {}
    /\ NoEntries

\* What datagram_received does with each input, evaluated once per input.
ReceivedOf ==
    [k \in DOMAIN Datagrams |-> [a \in DOMAIN Addrs |->
        [t \in Times |-> [f \in DOMAIN Faults |->
            datagram_received(Datagrams[k], Addrs[a], t, Faults[f])]]]]

Init ==
    /\ known_clients = <<>>
    /\ events = <<>>
    /\ lastData = <<>>
    /\ lastAddr = <<>>
    /\ fault = "none"
    /\ propagated = FALSE
    /\ now = 0
    /\ presult = <<>>
    /\ Listening

\* What one call datagram_received(data, addr) does to the protocol.
Deliver(k, a, f) ==
    LET r == ReceivedOf[k][a][now][f]
    IN  /\ known_clients' = ApplyWrites(known_clients, r.writes)
        /\ events' = r.events
        /\ propagated' = r.exc
        /\ lastData' = Datagrams[k]
        /\ lastAddr' = Addrs[a]
        /\ fault' = Faults[f]

\* The transport calls protocol.datagram_received(data, addr).
DatagramReceived(k, a, f) ==
    /\ Deliver(k, a, f)
    /\ UNCHANGED <<hass, now, presult, server>>

Tick ==
    /\ now < MaxTime
    /\ now' = now + 1
    /\ UNCHANGED <<hass, known_clients, events, lastData, lastAddr, fault, propagated, presult, server>>

Next ==
    \/ \E k \in DOMAIN Datagrams, a \in DOMAIN Addrs, f \in DOMAIN Faults :
           DatagramReceived(k, a, f)
    \/ Tick

Spec == Init /\ [][Next]_vars

-----------------------------------------------------------------------------
(* The decoder as a pure function: _decode_data, and the                   *)
(* parse_modbus_data call inside it, applied to one byte sequence.         *)

MaxCalls == 2

\* 16-bit register contents, as (high byte, low byte)
RegisterBytes == { <<0, 0>>, <<0, 100>>, <<1, 0>>, <<255, 255>> }

\* Frames with a valid header: every combination of register contents, with
\* two different checksums.
HeaderOk == <<MODBUS_DEVICE_ADDR, MODBUS_FUNCTION_CODE, MODBUS_DATA_LENGTH>>

FramesWithRegisters ==
    { HeaderOk \o r0 \o r1 \o r2 \o r3 \o crc :
        r0 \in RegisterBytes, r1 \in RegisterBytes, r2 \in RegisterBytes,
        r3 \in RegisterBytes, crc \in { <<170, 187>>, <<0, 0>> } }

\* Every header, with every total length from 0 to 15 bytes.
FramesWithHeaders ==
    { SubSeq(<<b0, b1, b2, 0, 100, 0, 3, 0, 90, 0, 2, 18, 52, 86, 120>>, 1, n) :
        b0 \in {MODBUS_DEVICE_ADDR, 127, 0},
        b1 \in {MODBUS_FUNCTION_CODE, 4, 128},
        b2 \in {MODBUS_DATA_LENGTH, 0, 5, 7, 9, 10},
        n \in 0..15 }

ParseInputs == FramesWithRegisters \cup FramesWithHeaders

InitParse ==
    /\ lastData \in ParseInputs
    /\ presult = <<>>
    /\ known_clients = <<>>
    /\ events = <<>>
    /\ lastAddr = <<>>
    /\ fault = "none"
    /\ propagated = FALSE
    /\ now = 0
    /\ Listening

\* One call of _decode_data(lastData): what its parse_modbus_data call
\* returned, and what it returned itself.
DecodeCall ==
    /\ Len(presult) < MaxCalls
    /\ presult' = Append(presult, [modbus_result |-> parse_modbus_data(lastData, now),
                                   decoded_data |-> _decode_data(lastData, now)])
    /\ UNCHANGED <<hass, known_clients, events, lastData, lastAddr, fault, propagated, now, server>>

NextParse == DecodeCall \/ Tick

SpecParse == InitParse /\ [][NextParse]_vars

-----------------------------------------------------------------------------
(* Properties.  The vocabulary of the specification, stated on the         *)
(* datagram itself.                                                         *)

\* A datagram has been handed to datagram_received.
Received == lastAddr # <<>>

\* "ip:port" of the sender of the last datagram
Source == lastAddr[1] \o ":" \o ToString(lastAddr[2])

\* A valid binary telemetry frame: 13 bytes, 0x80, 0x03, 0x08.
IsFrame(d) == Len(d) = 13 /\ d[1] = 128 /\ d[2] = 3 /\ d[3] = 8

\* Register k (0..3) of a frame, high byte first.
RegisterAt(d, k) == 256 * d[4 + 2 * k] + d[5 + 2 * k]

\* The four slots "0".."3" of a frame's registers
SlotsOf(d) == JObj([key \in {<<48 + k>> : k \in 0..3} |-> JInt(RegisterAt(d, key[1] - 48))])

K_WIND_DATA == <<119, 105, 110, 100, 95, 100, 97, 116, 97>>   \* 'wind_data'
K_TIMESTAMP == <<116, 105, 109, 101, 115, 116, 97, 109, 112>> \* 'timestamp'

\* What the specification says about a datagram that is not a frame: its
\* decoded text, the keywords in it, and its JSON reading.
Reading(d) ==
    LET text == _try_text_decode(d).text
        lower == Lower(text)
        j == json_loads(text)
    IN  [text         |-> text,
         heartbeat    |-> \E i \in DOMAIN HEARTBEAT_INDICATORS :
                              Contains(HEARTBEAT_INDICATORS[i], lower),
         registration |-> \E i \in DOMAIN REGISTRATION_INDICATORS :
                              Contains(REGISTRATION_INDICATORS[i], lower),
         telemetry    |-> /\ j.ok
                          /\ j.val.t = "obj"
                          /\ K_WIND_DATA \in DOMAIN j.val.v
                          /\ Truthy(j.val.v[K_WIND_DATA]),
         json         |-> j]

ReadingOf == [d \in {Datagrams[k] : k \in DOMAIN Datagrams} |-> Reading(d)]

\* The last datagram is control text with a heartbeat keyword.
IsHeartbeat == ~IsFrame(lastData) /\ ReadingOf[lastData].heartbeat

\* The last datagram is control text with a registration keyword only.
IsRegistration ==
    /\ ~IsFrame(lastData)
    /\ ~ReadingOf[lastData].heartbeat
    /\ ReadingOf[lastData].registration

\* The last datagram is JSON telemetry without any keyword.
IsJsonTelemetry ==
    /\ ~IsFrame(lastData)
    /\ ~ReadingOf[lastData].heartbeat
    /\ ~ReadingOf[lastData].registration
    /\ ReadingOf[lastData].telemetry

\* The last datagram is none of the above.
IsOther ==
    /\ ~IsFrame(lastData)
    /\ ~ReadingOf[lastData].heartbeat
    /\ ~ReadingOf[lastData].registration
    /\ ~ReadingOf[lastData].telemetry

EventTypes == {events[i].event_type : i \in DOMAIN events}

\* The sender of the last datagram has a registry record of this type.
Recorded(type) == Source \in DOMAIN known_clients /\ known_clients[Source].type = type

-----------------------------------------------------------------------------
\* C1: a valid frame (13 bytes, 0x80 0x03 0x08) produces exactly one
\* wind_data_received event carrying the four register values in slots
\* "0".."3" and the sender's "ip:port", and the registry records the sender
\* as a telemetry client; whatever its registers and checksum, a frame never
\* produces a heartbeat or registration event.
C1_FrameIsTelemetry ==
    (Received /\ IsFrame(lastData)) =>
        /\ "device_heartbeat" \notin EventTypes
        /\ "device_registered" \notin EventTypes
        /\ fault = "none" =>
            /\ Len(events) = 1
            /\ events[1].event_type = "wind_data_received"
            /\ events[1].wind_data = SlotsOf(lastData)
            /\ events[1].source_addr = Source
            /\ Recorded("wind_sensor")

C1_Witness ==
    /\ Received /\ IsFrame(lastData) /\ fault = "none"
    /\ lastData[12] = 170 /\ lastData[13] = 187
    /\ Len(events) = 1
    /\ events[1].wind_data.v[<<48>>] = JInt(100)
    /\ Recorded("wind_sensor")

-----------------------------------------------------------------------------
(* The decoder on one byte sequence (SpecParse) *)

\* The calls made so far
Calls == DOMAIN presult

\* The text a call of parse_modbus_data returned, read back as JSON
ParsedJson(i) == json_loads(presult[i].modbus_result.value.text)

Accepted(i) == ~presult[i].modbus_result.raised /\ presult[i].modbus_result.value.some

\* C2: for every accepted frame, slot k of the decoded telemetry is
\* 256 * byte[3+2k] + byte[4+2k] (0-based), an unsigned value in 0..65535.
C2_SlotsAreBigEndian ==
    \A i \in Calls :
        Accepted(i) =>
            /\ ParsedJson(i).ok
            /\ ParsedJson(i).val.t = "obj"
            /\ K_WIND_DATA \in DOMAIN ParsedJson(i).val.v
            /\ ParsedJson(i).val.v[K_WIND_DATA] = SlotsOf(lastData)
            /\ \A k \in 0..3 : RegisterAt(lastData, k) \in 0..65535

C2_Witness ==
    /\ Len(presult) > 0
    /\ Accepted(1)
    /\ RegisterAt(lastData, 0) = 256
    /\ RegisterAt(lastData, 1) = 100
    /\ RegisterAt(lastData, 3) = 65535
    /\ ParsedJson(1).val.v[K_WIND_DATA].v[<<48>>] = JInt(256)

\* One of the five rejections of the frame format applies.
FailsFrameCheck(d) ==
    \/ Len(d) < 5
    \/ d[1] # 128
    \/ d[2] # 3
    \/ d[3] # 8
    \/ Len(d) # 3 + d[3] + 2

\* C3: for input shorter than 5 bytes, or whose byte 0 is not 0x80, byte 1
\* is not 0x03, byte 2 is not 8, or whose length is not 3 + byte 2 + 2,
\* parse_modbus_data returns None and never raises, and the datagram goes on
\* to the text path: _decode_data returns what text decoding gives.
C3_RejectedIsNone ==
    \A i \in Calls :
        FailsFrameCheck(lastData) =>
            /\ presult[i].modbus_result = Return(None)
            /\ ~presult[i].decoded_data.raised
            /\ presult[i].decoded_data.value = Some(_try_text_decode(lastData).text)

C3_Witness ==
    /\ Len(presult) > 0
    /\ Len(lastData) = 14 /\ lastData[1] = 128 /\ lastData[2] = 3 /\ lastData[3] = 9
    /\ presult[1].modbus_result = Return(None)
    /\ presult[1].decoded_data.value.some

-----------------------------------------------------------------------------
(* The listener (Spec) *)

\* The first n characters of a text
FirstChars(text, n) == SubSeq(text, 1, IF Len(text) < n THEN Len(text) ELSE n)

\* C4: a control text with a heartbeat keyword from address A produces
\* exactly one device_heartbeat event with device_addr = A and heartbeat_data
\* equal to the first 100 characters of the text; A's record becomes type
\* heartbeat with last_heartbeat equal to its last_seen.
C4_Heartbeat ==
    (Received /\ IsHeartbeat /\ fault = "none") =>
        /\ Len(events) = 1
        /\ events[1].event_type = "device_heartbeat"
        /\ events[1].device_addr = Source
        /\ events[1].heartbeat_data = FirstChars(ReadingOf[lastData].text, 100)
        /\ Recorded("heartbeat")
        /\ "last_heartbeat" \in DOMAIN known_clients[Source]
        /\ known_clients[Source].last_heartbeat = known_clients[Source].last_seen

C4_Witness ==
    /\ Received /\ IsHeartbeat /\ fault = "none"
    /\ Len(ReadingOf[lastData].text) = 101
    /\ Len(events) = 1
    /\ Len(events[1].heartbeat_data) = 100
    /\ Recorded("heartbeat")
    /\ known_clients[Source].last_heartbeat = 1

\* C5: a control text with a registration keyword and no heartbeat keyword
\* from address A produces exactly one device_registered event with
\* device_addr = A and the full text as registration_data; A's record becomes
\* type registration with last_registration equal to its last_seen and the
\* registration text merged into it.
C5_Registration ==
    (Received /\ IsRegistration /\ fault = "none") =>
        /\ Len(events) = 1
        /\ events[1].event_type = "device_registered"
        /\ events[1].device_addr = Source
        /\ events[1].registration_data = ReadingOf[lastData].text
        /\ Recorded("registration")
        /\ "last_registration" \in DOMAIN known_clients[Source]
        /\ known_clients[Source].last_registration = known_clients[Source].last_seen
        /\ "registration_data" \in DOMAIN known_clients[Source]
        /\ known_clients[Source].registration_data = ReadingOf[lastData].text

C5_Witness ==
    /\ Received /\ IsRegistration /\ fault = "none"
    /\ Len(ReadingOf[lastData].text) = 101
    /\ Len(events) = 1
    /\ Len(events[1].registration_data) = 101
    /\ Recorded("registration")
    /\ Len(known_clients[Source].registration_data) = 101

\* C6: a text without any keyword that parses as a JSON object with a
\* non-empty wind_data member produces exactly one wind_data_received event
\* with that wind_data, the object's timestamp if it has one, and the source
\* address; the sender is recorded as a telemetry client, with no heartbeat
\* or registration classification.
C6_JsonTelemetry ==
    (Received /\ IsJsonTelemetry /\ fault = "none") =>
        LET obj == ReadingOf[lastData].json.val.v
        IN  /\ Len(events) = 1
            /\ events[1].event_type = "wind_data_received"
            /\ events[1].wind_data = obj[K_WIND_DATA]
            /\ events[1].timestamp =
                   IF K_TIMESTAMP \in DOMAIN obj THEN obj[K_TIMESTAMP] ELSE JNone
            /\ events[1].source_addr = Source
            /\ DOMAIN known_clients[Source] = {"last_seen", "type"}
            /\ Recorded("wind_sensor")

C6_Witness ==
    /\ Received /\ IsJsonTelemetry /\ fault = "none"
    /\ Len(events) = 1
    /\ events[1].timestamp = JStr(<<116, 49>>)
    /\ events[1].wind_data = JObj([key \in {<<48>>} |-> JInt(7)])
    /\ Recorded("wind_sensor")

\* C7: keyword routing comes before JSON parsing: a text with any keyword is
\* handled as control text even when it is valid JSON with wind_data, and
\* never produces a wind_data_received event.
C7_KeywordBeforeJson ==
    (Received /\ (IsHeartbeat \/ IsRegistration)) =>
        /\ "wind_data_received" \notin EventTypes
        /\ fault = "none" => /\ Len(events) = 1
                             /\ events[1].event_type \in {"device_heartbeat", "device_registered"}
        /\ fault # "time" => (Recorded("heartbeat") \/ Recorded("registration"))

C7_Witness ==
    /\ Received /\ IsRegistration /\ fault = "none"
    /\ ReadingOf[lastData].telemetry
    /\ Len(events) = 1
    /\ events[1].event_type = "device_registered"
    /\ Recorded("registration")

\* C8: classification is by case-insensitive substring, heartbeat keywords
\* first: a text with a heartbeat keyword is a Heartbeat even when it also
\* has a registration keyword; a text with only registration keywords is a
\* Registration; a text with neither is never a Heartbeat or Registration.
C8_Classification ==
    (Received /\ ~IsFrame(lastData) /\ fault = "none") =>
        LET r == ReadingOf[lastData]
        IN  /\ r.heartbeat => EventTypes = {"device_heartbeat"}
            /\ (~r.heartbeat /\ r.registration) => EventTypes = {"device_registered"}
            /\ (~r.heartbeat /\ ~r.registration) =>
                   /\ "device_heartbeat" \notin EventTypes
                   /\ "device_registered" \notin EventTypes

C8_Witness ==
    /\ Received /\ ~IsFrame(lastData) /\ fault = "none"
    /\ ReadingOf[lastData].heartbeat /\ ReadingOf[lastData].registration
    /\ EventTypes = {"device_heartbeat"}
    /\ Recorded("heartbeat")

\* C9: a datagram that is not a frame, has no keyword, and is not a JSON
\* object with a non-empty wind_data member is dropped: it produces no event
\* and creates or changes no registry record, its own sender's included.
C9_OtherIsDropped ==
    /\ []((Received /\ IsOther) => events = <<>>)
    /\ [][(lastAddr' # <<>> /\ IsOther') => known_clients' = known_clients]_vars

C9_Witness ==
    /\ Received /\ IsOther
    /\ ReadingOf[lastData].json.ok
    /\ events = <<>>
    /\ known_clients # <<>>
    /\ Source \notin DOMAIN known_clients

\* C10: one datagram's failure is isolated: whatever is raised while it is
\* processed, no exception leaves datagram_received, and the records of all
\* addresses other than its sender are as they were.
C10_Isolation ==
    /\ [](~propagated)
    /\ [][lastAddr' # <<>> =>
            /\ DOMAIN known_clients \subseteq DOMAIN known_clients'
            /\ DOMAIN known_clients' \subseteq DOMAIN known_clients \cup {Source'}
            /\ \A a \in DOMAIN known_clients :
                   a # Source' => known_clients'[a] = known_clients[a]]_vars

C10_Witness ==
    /\ Received /\ fault = "fire" /\ IsHeartbeat
    /\ ~propagated
    /\ events = <<>>
    /\ Recorded("heartbeat")
    /\ \E a \in DOMAIN known_clients : a # Source /\ known_clients[a].type = "registration"

-----------------------------------------------------------------------------
(* The registry snapshot: UDPProtocol.get_client_status read at clock t.   *)
(* The result is the status mapping together with the registry as the call *)
(* leaves it.                                                               *)

OFFLINE_THRESHOLD == 60

\* info.get(key, default) on a client record
InfoGet(info, key, default) == IF key \in DOMAIN info THEN info[key] ELSE default

\* Variant of UDPProtocol_get_client_status whose threshold is inclusive.
UDPProtocol_get_client_status_inclusive(clients, t) ==
    [status |->
        [addr \in DOMAIN clients |->
            [type             |-> InfoGet(clients[addr], "type", "unknown"),
             last_seen        |-> InfoGet(clients[addr], "last_seen", 0),
             online           |-> t - InfoGet(clients[addr], "last_seen", 0) <= OFFLINE_THRESHOLD,
             offline_duration |-> t - InfoGet(clients[addr], "last_seen", 0)]],
     known_clients |-> clients]

\* Variant of UDPProtocol_get_client_status that empties the registry it
\* has reported.
UDPProtocol_get_client_status_draining(clients, t) ==
    [status |->
        [addr \in DOMAIN clients |->
            [type             |-> InfoGet(clients[addr], "type", "unknown"),
             last_seen        |-> InfoGet(clients[addr], "last_seen", 0),
             online           |-> t - InfoGet(clients[addr], "last_seen", 0) < OFFLINE_THRESHOLD,
             offline_duration |-> t - InfoGet(clients[addr], "last_seen", 0)]],
     known_clients |-> <<>>]

\* UDPProtocol.get_client_status
UDPProtocol_get_client_status(clients, t) ==
    LET current_time == t
        entry(info) ==
            LET last_seen == InfoGet(info, "last_seen", 0)
                offline_duration == current_time - last_seen
            IN  [type             |-> InfoGet(info, "type", "unknown"),
                 last_seen        |-> last_seen,
                 online           |-> offline_duration < OFFLINE_THRESHOLD,
                 offline_duration |-> offline_duration]
    IN  [status |-> [addr \in DOMAIN clients |-> entry(clients[addr])],
         known_clients |-> clients]

\* The clock of the snapshot runs past the offline threshold.
MaxNow == 62

\* The datagrams of the snapshot model: a frame, 'ping', 'Please Register..'
StatusDatagrams ==
    {1, Len(Frames) + Len(NearFrames) + 1, Len(Frames) + Len(NearFrames) + 3}

InitStatus == Init

\* A datagram arrives (while the clock is within Times).
StatusReceived(k, a) ==
    /\ now \in Times
    /\ Deliver(k, a, 1)
    /\ status' = NoCall
    /\ UNCHANGED <<hass, now, presult, _running, transport, protocol, _start_lock, tasks,
                   ever_recorded>>

StatusTick ==
    /\ now < MaxNow
    /\ now' = now + 1
    /\ status' = NoCall
    /\ UNCHANGED <<hass, known_clients, events, lastData, lastAddr, fault, propagated, presult,
                   _running, transport, protocol, _start_lock, tasks, ever_recorded>>

\* protocol.get_client_status() is called.
StatusCalled ==
    LET r == UDPProtocol_get_client_status(known_clients, now)
    IN  /\ status' = [called |-> TRUE, result |-> r.status]
        /\ known_clients' = r.known_clients
        /\ UNCHANGED <<hass, events, lastData, lastAddr, fault, propagated, now, presult,
                       _running, transport, protocol, _start_lock, tasks, ever_recorded>>

NextStatus ==
    \/ \E k \in StatusDatagrams, a \in DOMAIN Addrs : StatusReceived(k, a)
    \/ StatusTick
    \/ StatusCalled

SpecStatus == InitStatus /\ [][NextStatus]_vars

\* C11: get_client_status reports a client online if and only if
\* now - last_seen is strictly less than 60 seconds (59 s is online, 60 s and
\* 61 s are offline), and offline_duration always equals now - last_seen.
C11_OnlineBelowSixty ==
    status.called =>
        /\ DOMAIN status.result = DOMAIN known_clients
        /\ \A a \in DOMAIN status.result :
            /\ status.result[a].online = (now - known_clients[a].last_seen < 60)
            /\ status.result[a].offline_duration = now - known_clients[a].last_seen
            /\ status.result[a].last_seen = known_clients[a].last_seen

C11_Witness ==
    /\ status.called
    /\ \E a, b \in DOMAIN status.result :
        /\ status.result[a].offline_duration = 59 /\ status.result[a].online
        /\ status.result[b].offline_duration = 60 /\ ~status.result[b].online

-----------------------------------------------------------------------------
(* The registry record across datagrams (Spec) *)

\* The role-specific fields of a record
RoleFields == {"last_heartbeat", "last_registration"}

\* The fields _update_client_status gives a record of a type
FieldsOf(type) ==
    {"last_seen", "type"}
        \cup (IF type = "heartbeat" THEN {"last_heartbeat"} ELSE {})
        \cup (IF type = "registration" THEN {"last_registration", "registration_data"}
              ELSE {})

\* The addresses whose record a step replaces by one of a different type
Retyped ==
    {a \in DOMAIN known_clients \cap DOMAIN known_clients' :
        known_clients'[a].type # known_clients[a].type}

-----------------------------------------------------------------------------
(* UDPWindServer: start(), stop() and get_client_status().  Each call of   *)
(* start() or stop() is a task; a step of a task runs from one suspension   *)
(* point (await) to the next, as the event loop runs it.  Durations are in  *)
(* tenths of a second.                                                      *)

MAX_RETRIES == 3          \* max_retries = 3
RETRY_DELAY == 10         \* retry_delay = 1.0
WAIT_TIME == 1            \* wait_time = 0.1
MAX_WAIT == 50            \* max_wait = 5.0

\* Variant of BelowMaxWait without a bound.
BelowMaxWait_unbounded(n) == TRUE

\* total_waited < max_wait after n additions of 0.1: the float sum of fifty
\* times 0.1 is 4.999999999999998, still below 5.0; of fifty-one, 5.1.
BelowMaxWait(n) == n * WAIT_TIME <= MAX_WAIT

\* How a bind attempt (socket, bind, create_datagram_endpoint) can end:
\* "in_use" is an OSError naming the port ('address already in use',
\* 'only one usage', 'permission denied'), "os_error" any other OSError,
\* "error" any other Exception.
Failures == {"in_use", "os_error", "error"}

\* asyncio.Lock.acquire / release: waiters are served first in, first out.
Enqueue(lock, i) == [lock EXCEPT !.waiters = Append(@, i)]

\* Variant of CanAcquire that does not look at the holder.
CanAcquire_unheld(lock, i) == lock.waiters # <<>> /\ Head(lock.waiters) = i

CanAcquire(lock, i) == lock.holder = "none" /\ lock.waiters # <<>> /\ Head(lock.waiters) = i
Acquired(lock, i) == [holder |-> i, waiters |-> Tail(lock.waiters)]
Released(lock) == [lock EXCEPT !.holder = "none"]

\* The call returned, or raised to its caller (`async with` releases the
\* lock): its local variables are gone, its result is kept.
Finished(t, how) ==
    [Idle EXCEPT !.op = t.op, !.result = how, !.unclosed = t.unclosed, !.attached = t.attached]

\* UDPWindServer.__init__; nothing is listening and no protocol exists.
InitServer ==
    /\ known_clients = <<>>
    /\ events = <<>>
    /\ lastData = <<>>
    /\ lastAddr = <<>>
    /\ fault = "none"
    /\ propagated = FALSE
    /\ now = 0
    /\ presult = <<>>
    /\ _running = FALSE
    /\ transport = "none"
    /\ protocol = FALSE
    /\ _start_lock = Unlocked
    /\ tasks = [i \in Tasks |-> Idle]
    /\ status = NoCall
    /\ ever_recorded = {}
    /\ NoEntries

\* What no lifecycle step touches
ProtocolUnchanged ==
    UNCHANGED <<hass, known_clients, events, lastData, lastAddr, fault, propagated, now, presult,
                ever_recorded>>

FieldsUnchanged == UNCHANGED <<_running, transport, protocol>>

\* A caller calls start() or stop(): `async with self._start_lock`
Call(i, op) ==
    /\ tasks[i].pc = "idle"
    /\ tasks' = [tasks EXCEPT ![i] = [Idle EXCEPT !.op = op, !.pc = "waiting"]]
    /\ _start_lock' = Enqueue(_start_lock, i)
    /\ status' = NoCall
    /\ FieldsUnchanged /\ ProtocolUnchanged

\* The lock is granted and the call runs to its first statement.
Acquire(i) ==
    /\ tasks[i].pc = "waiting"
    /\ CanAcquire(_start_lock, i)
    /\ _start_lock' = Acquired(_start_lock, i)
    /\ tasks' = [tasks EXCEPT ![i].pc = "locked"]
    /\ status' = NoCall
    /\ FieldsUnchanged /\ ProtocolUnchanged

\* Variant of StartCheck without `if self._running: return`.
StartCheck_unchecked(i) ==
    /\ tasks[i].op = "start" /\ tasks[i].pc = "locked"
    /\ tasks' = [tasks EXCEPT ![i].pc = "bind", ![i].attempt = 0,
                              ![i].retry_delay = RETRY_DELAY]
    /\ UNCHANGED _start_lock
    /\ status' = NoCall
    /\ FieldsUnchanged /\ ProtocolUnchanged

\* start(): `if self._running: return`, else the retry loop begins.
StartCheck(i) ==
    /\ tasks[i].op = "start" /\ tasks[i].pc = "locked"
    /\ IF _running
           THEN /\ tasks' = [tasks EXCEPT ![i] = Finished(@, "returned")]
                /\ _start_lock' = Released(_start_lock)
           ELSE /\ tasks' = [tasks EXCEPT ![i].pc = "bind", ![i].attempt = 0,
                                          ![i].retry_delay = RETRY_DELAY]
                /\ UNCHANGED _start_lock
    /\ status' = NoCall
    /\ FieldsUnchanged /\ ProtocolUnchanged

\* `if sock: sock.close()` of an except clause
SockClosed(t) == [t EXCEPT !.unclosed = @ - 1]

\* Variant of AfterFailure whose `except Exception` clause does not close
\* the socket.
AfterFailure_leaking(t, kind) ==
    CASE kind = "in_use" ->
             IF t.attempt < MAX_RETRIES - 1
                 THEN [SockClosed(t) EXCEPT !.pc = "sleep_port", !.failures = Append(@, kind),
                                            !.sleeps = Append(@, t.retry_delay)]
             ELSE Finished(SockClosed(t), "raised")
      [] kind = "os_error" -> Finished(SockClosed(t), "raised")
      [] kind = "error" ->
             IF t.attempt = MAX_RETRIES - 1 THEN Finished(t, "raised")
             ELSE [t EXCEPT !.pc = "sleep_other", !.failures = Append(@, kind),
                            !.sleeps = Append(@, t.retry_delay)]

\* start(): the except clauses of one attempt, which close the socket of the
\* attempt first.  A port OSError sleeps retry_delay and doubles it, unless
\* this was the last attempt; another OSError is raised at once; another
\* Exception sleeps retry_delay, unless this was the last attempt.
AfterFailure(t, kind) ==
    CASE kind = "in_use" ->
             IF t.attempt < MAX_RETRIES - 1
                 THEN [SockClosed(t) EXCEPT !.pc = "sleep_port", !.failures = Append(@, kind),
                                            !.sleeps = Append(@, t.retry_delay)]
             ELSE Finished(SockClosed(t), "raised")
      [] kind = "os_error" -> Finished(SockClosed(t), "raised")
      [] kind = "error" ->
             IF t.attempt = MAX_RETRIES - 1 THEN Finished(SockClosed(t), "raised")
             ELSE [SockClosed(t) EXCEPT !.pc = "sleep_other", !.failures = Append(@, kind),
                                        !.sleeps = Append(@, t.retry_delay)]

\* The attempt failed: the task sleeps, or start() raises and frees the lock.
Fails(i, t, kind) ==
    /\ tasks' = [tasks EXCEPT ![i] = AfterFailure(t, kind)]
    /\ _start_lock' = IF AfterFailure(t, kind).pc = "idle" THEN Released(_start_lock)
                      ELSE _start_lock

\* start(): socket.socket, setsockopt and sock.bind of one attempt; the
\* socket exists when bind raises.
Bind(i, outcome) ==
    /\ tasks[i].pc = "bind"
    /\ LET t == [tasks[i] EXCEPT !.binds = @ + 1, !.unclosed = @ + 1]
       IN  IF outcome = "ok"
               THEN /\ tasks' = [tasks EXCEPT ![i] = [t EXCEPT !.pc = "endpoint"]]
                    /\ UNCHANGED _start_lock
           ELSE Fails(i, t, outcome)
    /\ status' = NoCall
    /\ FieldsUnchanged /\ ProtocolUnchanged

\* start(): `await loop.create_datagram_endpoint(lambda: UDPProtocol(hass))`
\* returns the transport, which has the socket now, and a new protocol,
\* whose known_clients is empty.
Endpoint(i, outcome) ==
    /\ tasks[i].pc = "endpoint"
    /\ IF outcome = "ok"
           THEN /\ transport' = "open"
                /\ protocol' = TRUE
                /\ known_clients' = <<>>
                /\ _running' = TRUE
                /\ tasks' = [tasks EXCEPT
                                ![i] = Finished([@ EXCEPT !.unclosed = @ - 1,
                                                          !.attached = @ + 1], "returned")]
                /\ _start_lock' = Released(_start_lock)
           ELSE /\ Fails(i, tasks[i], outcome)
                /\ UNCHANGED <<_running, transport, protocol, known_clients>>
    /\ status' = NoCall
    /\ UNCHANGED <<hass, events, lastData, lastAddr, fault, propagated, now, presult,
                   ever_recorded>>

\* Variant of Retry that keeps retry_delay as it is.
Retry_constant_delay(i) ==
    /\ tasks[i].pc \in {"sleep_port", "sleep_other"}
    /\ tasks' = [tasks EXCEPT ![i].pc = "bind", ![i].attempt = @ + 1]
    /\ status' = NoCall
    /\ UNCHANGED _start_lock
    /\ FieldsUnchanged /\ ProtocolUnchanged

\* start(): `await asyncio.sleep(retry_delay)` is over; the next attempt.
Retry(i) ==
    /\ tasks[i].pc \in {"sleep_port", "sleep_other"}
    /\ tasks' = [tasks EXCEPT
                    ![i].pc = "bind",
                    ![i].attempt = @ + 1,
                    ![i].retry_delay = IF tasks[i].pc = "sleep_port" THEN @ * 2 ELSE @]
    /\ status' = NoCall
    /\ UNCHANGED _start_lock
    /\ FieldsUnchanged /\ ProtocolUnchanged

\* Variant of Cleared that leaves the flag for after the sleep.
Cleared_flag_later ==
    /\ transport' = "none"
    /\ protocol' = FALSE
    /\ UNCHANGED _running

\* The except clause of stop(), and the end of its try body
Cleared ==
    /\ transport' = "none"
    /\ protocol' = FALSE
    /\ _running' = FALSE

\* Variant of StopCheck without `if not self._running: return`.
StopCheck_unchecked(i) ==
    /\ tasks[i].op = "stop" /\ tasks[i].pc = "locked"
    /\ IF transport # "none"
           THEN /\ tasks' = [tasks EXCEPT ![i].pc = "close"]
                /\ FieldsUnchanged
           ELSE /\ tasks' = [tasks EXCEPT ![i].pc = "release_wait"]
                /\ Cleared
    /\ UNCHANGED _start_lock
    /\ status' = NoCall
    /\ ProtocolUnchanged

\* stop(): `if not self._running: return`
StopCheck(i) ==
    /\ tasks[i].op = "stop" /\ tasks[i].pc = "locked"
    /\ IF ~_running
           THEN /\ tasks' = [tasks EXCEPT ![i] = Finished(@, "returned")]
                /\ _start_lock' = Released(_start_lock)
                /\ FieldsUnchanged
           ELSE IF transport # "none"
                    THEN /\ tasks' = [tasks EXCEPT ![i].pc = "close"]
                         /\ UNCHANGED _start_lock
                         /\ FieldsUnchanged
                ELSE /\ tasks' = [tasks EXCEPT ![i].pc = "release_wait"]
                     /\ UNCHANGED _start_lock
                     /\ Cleared
    /\ status' = NoCall
    /\ ProtocolUnchanged

\* stop(): self.transport.close(), which may raise
Close(i, raises) ==
    /\ tasks[i].pc = "close"
    /\ IF raises
           THEN /\ Cleared
                /\ tasks' = [tasks EXCEPT ![i] = Finished(@, "returned")]
                /\ _start_lock' = Released(_start_lock)
           ELSE /\ transport' = "closing"
                /\ tasks' = [tasks EXCEPT ![i].pc = "wait", ![i].total_waited = 0]
                /\ UNCHANGED <<_running, protocol, _start_lock>>
    /\ status' = NoCall
    /\ ProtocolUnchanged

\* stop(): one test of `while not self.transport.is_closing() and
\* total_waited < max_wait`; closing is what is_closing() answers.  The loop
\* sleeps wait_time and counts it, or ends: the fields are cleared and stop()
\* sleeps 0.5 s more with the lock held.
Wait(i, closing) ==
    /\ tasks[i].pc = "wait"
    /\ IF ~closing /\ BelowMaxWait(tasks[i].total_waited)
           THEN /\ tasks' = [tasks EXCEPT ![i].total_waited = @ + 1]
                /\ FieldsUnchanged
           ELSE /\ tasks' = [tasks EXCEPT ![i].pc = "release_wait"]
                /\ Cleared
    /\ status' = NoCall
    /\ UNCHANGED _start_lock
    /\ ProtocolUnchanged

\* stop(): `await asyncio.sleep(0.5)` is over; stop() returns.
StopReturn(i) ==
    /\ tasks[i].pc = "release_wait"
    /\ tasks' = [tasks EXCEPT ![i] = Finished(@, "returned")]
    /\ _start_lock' = Released(_start_lock)
    /\ status' = NoCall
    /\ FieldsUnchanged /\ ProtocolUnchanged

\* Variant of UDPWindServer_get_client_status without the guard.
UDPWindServer_get_client_status_unguarded(running, proto, clients, t) ==
    UDPProtocol_get_client_status(clients, t)

\* UDPWindServer.get_client_status
UDPWindServer_get_client_status(running, proto, clients, t) ==
    IF ~running \/ ~proto THEN [status |-> <<>>, known_clients |-> clients]
    ELSE UDPProtocol_get_client_status(clients, t)

\* UDPWindServer.is_running
is_running(running, tr) == running /\ tr # "none"

\* The datagram of the server model: 'ping'
ServerDatagrams == {Len(Frames) + Len(NearFrames) + 1}

\* The open endpoint hands a datagram to its protocol.
ServerReceived(k, a) ==
    /\ transport = "open" /\ protocol
    /\ Deliver(k, a, 1)
    /\ ever_recorded' = ever_recorded \cup DOMAIN known_clients'
    /\ status' = NoCall
    /\ UNCHANGED <<hass, now, presult, _running, transport, protocol, _start_lock, tasks>>

\* A collaborator calls server.get_client_status().
ServerStatusCalled ==
    LET r == UDPWindServer_get_client_status(_running, protocol, known_clients, now)
    IN  /\ status' = [called |-> TRUE, result |-> r.status]
        /\ known_clients' = r.known_clients
        /\ UNCHANGED <<hass, events, lastData, lastAddr, fault, propagated, now, presult,
                       _running, transport, protocol, _start_lock, tasks, ever_recorded>>

NextServer ==
    \/ \E i \in Tasks, op \in {"start", "stop"} : Call(i, op)
    \/ \E i \in Tasks : Acquire(i)
    \/ \E i \in Tasks : StartCheck(i)
    \/ \E i \in Tasks, outcome \in {"ok"} \cup Failures : Bind(i, outcome)
    \/ \E i \in Tasks, outcome \in {"ok"} \cup Failures : Endpoint(i, outcome)
    \/ \E i \in Tasks : Retry(i)
    \/ \E i \in Tasks : StopCheck(i)
    \/ \E i \in Tasks, raises \in BOOLEAN : Close(i, raises)
    \/ \E i \in Tasks, closing \in BOOLEAN : Wait(i, closing)
    \/ \E i \in Tasks : StopReturn(i)
    \/ \E k \in ServerDatagrams, a \in DOMAIN Addrs : ServerReceived(k, a)
    \/ ServerStatusCalled

SpecServer == InitServer /\ [][NextServer]_vars

-----------------------------------------------------------------------------
(* Properties of the server (SpecServer) *)

\* C13: get_client_status is read-only and complete: it leaves known_clients
\* unchanged, and while the listener is running its result has exactly one
\* entry for every address in the registry; within one running listener the
\* set of registered addresses never shrinks.
C13_SnapshotReadOnly ==
    /\ []((status.called /\ _running) => DOMAIN status.result = DOMAIN known_clients)
    /\ [][status'.called => known_clients' = known_clients]_vars
    /\ [][(_running /\ _running') => DOMAIN known_clients \subseteq DOMAIN known_clients']_vars

C13_Witness ==
    /\ status.called /\ _running
    /\ Cardinality(DOMAIN known_clients) = 2
    /\ DOMAIN status.result = DOMAIN known_clients

\* C14 as stated: a client record, once created, is never deleted: after any
\* sequence of datagrams, stop() and start() calls, every address the
\* listener has ever recorded is still reported by get_client_status whenever
\* the listener is running.
C14_AsStated ==
    (status.called /\ _running) => ever_recorded \subseteq DOMAIN status.result

\* C15: UDPWindServer.get_client_status returns the empty mapping whenever
\* the listener is not running (never started, start failed, or stopped),
\* whatever clients were recorded before.
C15_EmptyWhenNotRunning ==
    (status.called /\ ~_running) => status.result = <<>>

C15_Witness ==
    /\ status.called /\ ~_running
    /\ ever_recorded # {}
    /\ \E i \in Tasks : tasks[i].op = "stop" /\ tasks[i].result = "returned"
    /\ status.result = <<>>

-----------------------------------------------------------------------------
(* The lifecycle (SpecServer) *)

\* Task i is inside the body of start() or stop(), holding the lock.
InBody(i) == tasks[i].pc \notin {"idle", "waiting"}

InStart(i) == tasks[i].op = "start" /\ tasks[i].pc \in {"bind", "endpoint", "sleep_port", "sleep_other"}
InStop(i) == tasks[i].op = "stop" /\ tasks[i].pc \in {"close", "wait", "release_wait"}

\* The lifecycle state of the listener
Phase ==
    IF \E i \in Tasks : InStart(i) THEN "Starting"
    ELSE IF \E i \in Tasks : InStop(i) THEN "Stopping"
    ELSE IF _running THEN "Running"
    ELSE "Stopped"

\* Task i leaves its call in this step.
Completes(i) == tasks[i].pc # "idle" /\ tasks'[i].pc = "idle"

\* C16: the lifecycle follows only Stopped -> Starting -> Running -> Stopping
\* -> Stopped: Running is entered only from Starting, by the step in which
\* endpoint creation succeeds after a successful bind; Stopping is entered
\* only from Running; a start that fails goes from Starting back to Stopped
\* without having been Running.
C16_Lifecycle ==
    /\ [][Phase' # Phase =>
            <<Phase, Phase'>> \in {<<"Stopped", "Starting">>, <<"Starting", "Running">>,
                                   <<"Starting", "Stopped">>, <<"Running", "Stopping">>,
                                   <<"Stopping", "Stopped">>}]_vars
    /\ [][(Phase # "Running" /\ Phase' = "Running") =>
            \E i \in Tasks : /\ tasks[i].op = "start" /\ tasks[i].pc = "endpoint"
                             /\ tasks[i].binds >= 1
                             /\ tasks'[i].result = "returned"]_vars
    /\ [][\A i \in Tasks :
            (tasks[i].op = "start" /\ Completes(i) /\ tasks'[i].result = "raised") =>
                (Phase = "Starting" /\ Phase' = "Stopped" /\ ~_running /\ ~_running')]_vars

C16_Witness ==
    /\ Phase = "Stopped"
    /\ ever_recorded # {}
    /\ \E i, j \in Tasks : /\ tasks[i].op = "start" /\ tasks[i].result = "raised"
                           /\ tasks[j].op = "stop" /\ tasks[j].result = "returned"

\* C17: start() and stop() are mutually exclusive under the lock: at most
\* one call is inside its body, across all its suspension points; a call
\* enters its body only when no other is inside (a stop() issued during a
\* start() runs after it, a start() issued during a stop() binds only after
\* the stop's release wait), and when a stop() completes the listener is
\* Stopped with its transport cleared.
C17_MutualExclusion ==
    /\ [](\A i, j \in Tasks : (InBody(i) /\ InBody(j)) => i = j)
    /\ [](\A i \in Tasks : InBody(i) => _start_lock.holder = i)
    /\ [][\A i \in Tasks : (~InBody(i) /\ InBody(i)') =>
            \A j \in Tasks \ {i} : ~InBody(j) /\ ~InBody(j)']_vars
    /\ [][\A i \in Tasks : (tasks[i].op = "stop" /\ Completes(i)) =>
            (~_running' /\ transport' = "none" /\ protocol' = FALSE
             /\ \A j \in Tasks : ~InStart(j)')]_vars

C17_Witness ==
    \E i, j \in Tasks :
        /\ tasks[i].op = "start" /\ tasks[i].pc = "sleep_port"
        /\ tasks[j].op = "stop" /\ tasks[j].pc = "waiting"
        /\ _start_lock.holder = i

\* C18: stop() is idempotent: on a listener that is not running, a stop()
\* changes no state (running flag, transport, protocol), closes nothing and
\* returns normally, so any number of consecutive stop() calls leaves the
\* state one of them leaves.
C18_StopIdempotent ==
    [][\A i \in Tasks :
          (/\ tasks[i].op = "stop"
           /\ tasks[i].pc \in {"waiting", "locked"}
           /\ ~_running
           /\ tasks'[i] # tasks[i]) =>
              /\ <<_running, transport, protocol>>' = <<_running, transport, protocol>>
              /\ transport = "none"
              /\ known_clients' = known_clients
              /\ \/ tasks[i].pc = "waiting" /\ tasks'[i].pc = "locked"
                 \/ /\ tasks[i].pc = "locked"
                    /\ tasks'[i].pc = "idle"
                    /\ tasks'[i].result = "returned"]_vars

C18_Witness ==
    /\ ~_running /\ transport = "none" /\ ~protocol
    /\ ever_recorded # {}
    /\ \A i \in Tasks : tasks[i].op = "stop" /\ tasks[i].result = "returned"

\* The delays start() has slept so far, when every failure so far named the
\* port: 1 s, then 2 s.
PortBackoff == <<10, 20>>

\* C19: a bind failure (the port is unavailable) is retried with bounded
\* exponential backoff: start() makes at most 3 bind attempts, sleeps 1 s
\* after the first failure and 2 s after the second, and after the third
\* failure raises to its caller with the listener not running; it never
\* makes a fourth attempt.
C19_BoundedBackoff ==
    /\ [](\A i \in Tasks :
            /\ tasks[i].binds <= 3
            /\ tasks[i].attempt <= 2
            /\ (\A n \in DOMAIN tasks[i].failures : tasks[i].failures[n] = "in_use") =>
                   /\ Len(tasks[i].failures) <= 2
                   /\ tasks[i].sleeps = SubSeq(PortBackoff, 1, Len(tasks[i].failures)))
    /\ [][\A i \in Tasks :
            (/\ tasks[i].pc \in {"bind", "endpoint"}
             /\ tasks[i].attempt = 2
             /\ tasks'[i] # tasks[i]
             /\ tasks'[i].pc # "endpoint") =>
                /\ tasks'[i].pc = "idle"
                /\ \/ tasks'[i].result = "raised" /\ ~_running'
                   \/ tasks'[i].result = "returned" /\ _running']_vars

C19_Witness ==
    \E i \in Tasks :
        /\ tasks[i].op = "start" /\ tasks[i].pc = "bind"
        /\ tasks[i].binds = 2
        /\ tasks[i].failures = <<"in_use", "in_use">>
        /\ tasks[i].sleeps = <<10, 20>>

\* The event loop resumes every task whose await is over: each call's next
\* step is eventually taken.
TaskStep(i) ==
    \/ Acquire(i)
    \/ StartCheck(i)
    \/ \E outcome \in {"ok"} \cup Failures : Bind(i, outcome)
    \/ \E outcome \in {"ok"} \cup Failures : Endpoint(i, outcome)
    \/ Retry(i)
    \/ StopCheck(i)
    \/ \E raises \in BOOLEAN : Close(i, raises)
    \/ \E closing \in BOOLEAN : Wait(i, closing)
    \/ StopReturn(i)

SpecServerFair == SpecServer /\ \A i \in Tasks : WF_vars(TaskStep(i))

-----------------------------------------------------------------------------
(* The integration with two config entries: async_setup_entry,             *)
(* async_unload_entry, the service get_device_status and the sensor        *)
(* platform.  Each call runs here from its first statement to its return:   *)
(* the calls on one UDPWindServer are ordered by its lock (SpecServer), and *)
(* two servers share no field.  h is Home Assistant's side of the state:    *)
(* [hass_data, services, registries, sensors].                              *)

\* The ports an entry can be configured with
Ports == {8888, 8889}

\* UDPWindServer.__init__
UDPWindServer(port) == [port |-> port, _running |-> FALSE, transport |-> "none", protocol |-> 0]

\* The UDPProtocol objects that some server of hass.data refers to
Live(data) == {data[e].server.protocol : e \in DOMAIN data} \ {0}

\* Variant of UDPProtocol_init with known_clients as one dict of the class.
UDPProtocol_init_shared(regs, live) == [protocol |-> 1, registries |-> regs]

\* UDPProtocol.__init__: a new object, whose known_clients is a new dict
UDPProtocol_init(regs, live) ==
    LET p == CHOOSE q \in Pids : q \notin live
    IN  [protocol |-> p, registries |-> [regs EXCEPT ![p] = <<>>]]

\* UDPWindServer.start, as a whole call; outcome says how its attempts end:
\* "ok", or the exception that leaves it.
UDPWindServer_start(srv, regs, live, outcome) ==
    IF srv._running THEN [server |-> srv, registries |-> regs, exc |-> "none"]
    ELSE IF outcome = "ok"
        THEN LET new == UDPProtocol_init(regs, live)
             IN  [server |-> [srv EXCEPT !._running = TRUE, !.transport = "open",
                                         !.protocol = new.protocol],
                  registries |-> new.registries, exc |-> "none"]
    ELSE [server |-> srv, registries |-> regs, exc |-> outcome]

\* UDPWindServer.stop, as a whole call.  The protocol, which nothing refers
\* to any more, is dropped with its known_clients.
UDPWindServer_stop(srv, regs) ==
    IF ~srv._running THEN [server |-> srv, registries |-> regs]
    ELSE [server |-> [srv EXCEPT !._running = FALSE, !.transport = "none", !.protocol = 0],
          registries |-> IF srv.protocol = 0 THEN regs
                         ELSE [regs EXCEPT ![srv.protocol] = <<>>]]

\* hass.data[DOMAIN] without the entries of gone, whose servers are stopped
Popped(h, gone) ==
    [h EXCEPT
        !.hass_data = [x \in (DOMAIN h.hass_data) \ gone |-> h.hass_data[x]],
        !.registries =
            [p \in Pids |->
                IF \E x \in gone \cap DOMAIN h.hass_data :
                       UDPWindServer_stop(h.hass_data[x].server, h.registries).registries[p]
                           # h.registries[p]
                    THEN <<>>
                ELSE h.registries[p]]]

\* _cleanup_existing_instance: the instance of the same entry id, then the
\* instances of other entries on the same port, are stopped and removed.
_cleanup_existing_instance(h, entry_id, port) ==
    Popped(h, {x \in DOMAIN h.hass_data : x = entry_id \/ h.hass_data[x].port = port})

\* _cleanup_failed_setup
_cleanup_failed_setup(h, entry_id) == Popped(h, {entry_id})

\* _register_services: hass.services.async_register, unless has_service
_register_services(h) == [h EXCEPT !.services = TRUE]

\* How one async_setup_entry call can go: "port_busy" is
\* _check_port_available answering False, "not_ready" start() raising
\* ConfigEntryNotReady, "start_error" start() raising something else,
\* "forward_fails" async_forward_entry_setups raising.
SetupOutcomes == {"ok", "port_busy", "not_ready", "start_error", "forward_fails"}

\* async_setup_entry (src/__init__.py); result is "loaded" for True and
\* "not_loaded" for ConfigEntryNotReady.
async_setup_entry(h, entry_id, port, outcome) ==
    LET h1 == _cleanup_existing_instance(h, entry_id, port)
        started == UDPWindServer_start(UDPWindServer(port), h1.registries, Live(h1.hass_data),
                                       IF outcome \in {"not_ready", "start_error"} THEN outcome
                                       ELSE "ok")
        h2 == [h1 EXCEPT !.hass_data = DictPut(@, entry_id,
                                               [server |-> started.server, port |-> port]),
                         !.registries = started.registries]
        h3 == _register_services(h2)
    IN  IF outcome = "port_busy" THEN [hass |-> h1, result |-> "not_loaded"]
        ELSE IF started.exc = "not_ready" THEN [hass |-> h1, result |-> "not_loaded"]
        ELSE IF started.exc # "none"
            THEN [hass |-> _cleanup_failed_setup(h1, entry_id), result |-> "not_loaded"]
        ELSE IF outcome = "forward_fails"
            THEN [hass |-> _cleanup_failed_setup(h3, entry_id), result |-> "not_loaded"]
        ELSE [hass |-> [h3 EXCEPT !.sensors[entry_id] = [NoSensors EXCEPT !.added = TRUE]],
              result |-> "loaded"]

\* async_unload_entry; unload_ok is what async_unload_platforms answers.
async_unload_entry(h, entry_id, unload_ok) ==
    LET h1 == Popped(h, {entry_id})
        h2 == IF DOMAIN h1.hass_data = {} /\ h1.services THEN [h1 EXCEPT !.services = FALSE]
              ELSE h1
    IN  [hass |-> IF unload_ok THEN [h2 EXCEPT !.sensors[entry_id] = NoSensors] ELSE h2,
         result |-> IF unload_ok THEN "not_loaded" ELSE "failed_unload"]

\* raw_value / WIND_SPEED_SCALE, in m/s: <<whole, tenths>>
WindSpeed(raw_value) == <<raw_value \div 10, raw_value % 10>>

\* What the entities of one entry do with an event of the bus:
\* handle_wind_event of WindSpeedSensor with its _handle_wind_data, and
\* update_activity of DeviceStatusSensor.  Both were registered with
\* hass.bus.async_listen(f'{DOMAIN}_event', ...), and neither looks at who
\* fired the event.  t is loop.time() when the event is handled.
Handled(s, event, t) ==
    LET wind_data == IF "wind_data" \in DOMAIN event THEN event.wind_data ELSE EmptyDict
    IN  [s EXCEPT !._last_activity = <<t>>,
                  !.status = "online",
                  !.minutes_offline = 0,
                  !.wind_speed = IF /\ event.event_type = "wind_data_received"
                                    /\ wind_data.t = "obj"
                                    /\ <<48>> \in DOMAIN wind_data.v
                                    /\ IsNumber(wind_data.v[<<48>>])
                                     THEN WindSpeed(wind_data.v[<<48>>].v)
                                 ELSE @]

\* hass.bus.async_fire: every listener of the bus gets each event.
RECURSIVE Dispatched(_, _, _)
Dispatched(sens, evs, t) ==
    IF Len(evs) = 0 THEN sens
    ELSE Dispatched([e \in Entries |-> IF sens[e].added THEN Handled(sens[e], evs[1], t)
                                       ELSE sens[e]],
                    Tail(evs), t)

\* Home Assistant's side of the state, as the handlers take it
Hass == [hass_data |-> hass_data, services |-> services, registries |-> registries,
         sensors |-> sensors]

\* The state after a handler returned h
Becomes(h) ==
    /\ hass_data' = h.hass_data
    /\ services' = h.services
    /\ registries' = h.registries
    /\ sensors' = h.sensors

InitEntries == Init

\* What a step of Home Assistant's side leaves alone
ListenerUnchanged ==
    UNCHANGED <<known_clients, fault, propagated, now, presult, server>>

\* Home Assistant sets up an entry that is not loaded.
SetupEntry(e, port, outcome) ==
    /\ config_entries[e] = "not_loaded"
    /\ LET r == async_setup_entry(Hass, e, port, outcome)
       IN  /\ Becomes(r.hass)
           /\ config_entries' = [config_entries EXCEPT ![e] = r.result]
    /\ UNCHANGED <<events, lastData, lastAddr, lastEntry>>
    /\ ListenerUnchanged

\* Home Assistant unloads a loaded entry.
UnloadEntry(e, unload_ok) ==
    /\ config_entries[e] = "loaded"
    /\ LET r == async_unload_entry(Hass, e, unload_ok)
       IN  /\ Becomes(r.hass)
           /\ config_entries' = [config_entries EXCEPT ![e] = r.result]
    /\ UNCHANGED <<events, lastData, lastAddr, lastEntry>>
    /\ ListenerUnchanged

\* server.stop() on the server of an entry
StopListener(e) ==
    /\ e \in DOMAIN hass_data
    /\ LET r == UDPWindServer_stop(hass_data[e].server, registries)
       IN  /\ hass_data' = [hass_data EXCEPT ![e].server = r.server]
           /\ registries' = r.registries
    /\ UNCHANGED <<services, sensors, config_entries, events, lastData, lastAddr, lastEntry>>
    /\ ListenerUnchanged

\* server.start() on the server of an entry
StartListener(e, outcome) ==
    /\ e \in DOMAIN hass_data
    /\ LET r == UDPWindServer_start(hass_data[e].server, registries, Live(hass_data), outcome)
       IN  /\ hass_data' = [hass_data EXCEPT ![e].server = r.server]
           /\ registries' = r.registries
    /\ UNCHANGED <<services, sensors, config_entries, events, lastData, lastAddr, lastEntry>>
    /\ ListenerUnchanged

\* The datagrams of this model: the frame of the scenario and 'ping'
EntryDatagrams == {1, Len(Frames) + Len(NearFrames) + 1}

\* The open endpoint of an entry's server hands a datagram to its protocol,
\* whose events go to every listener of the bus.
EntryReceived(e, k, a) ==
    /\ e \in DOMAIN hass_data
    /\ hass_data[e].server.transport = "open"
    /\ LET r == ReceivedOf[k][a][now][1]
           p == hass_data[e].server.protocol
       IN  /\ registries' = [registries EXCEPT ![p] = ApplyWrites(@, r.writes)]
           /\ events' = r.events
           /\ sensors' = Dispatched(sensors, r.events, now)
    /\ lastData' = Datagrams[k]
    /\ lastAddr' = Addrs[a]
    /\ lastEntry' = e
    /\ UNCHANGED <<hass_data, services, config_entries>>
    /\ ListenerUnchanged

NextEntries ==
    \/ \E e \in Entries, port \in Ports, outcome \in SetupOutcomes : SetupEntry(e, port, outcome)
    \/ \E e \in Entries, unload_ok \in BOOLEAN : UnloadEntry(e, unload_ok)
    \/ \E e \in Entries : StopListener(e)
    \/ \E e \in Entries, outcome \in {"ok", "not_ready"} : StartListener(e, outcome)
    \/ \E e \in Entries, k \in EntryDatagrams : EntryReceived(e, k, 1)

SpecEntries == InitEntries /\ [][NextEntries]_vars


-----------------------------------------------------------------------------
(* Two listeners (SpecEntries) *)

\* The registry of the listener of entry e: its protocol's known_clients
RegistryOf(e) ==
    IF hass_data[e].server.protocol = 0 THEN <<>>
    ELSE registries[hass_data[e].server.protocol]

\* The step hands a datagram to the listener of entry x.
ReceivedOn(x) == lastEntry' = x /\ hass_data' = hass_data

\* The step stops or starts the listener of entry x, or unloads the entry.
StopsOrStarts(x) ==
    \/ x \notin DOMAIN hass_data'
    \/ x \in DOMAIN hass_data' /\ hass_data'[x].server # hass_data[x].server

\* C21: two listeners on different ports keep independent registries: a
\* datagram received on listener x creates or modifies no record in the
\* registry of listener y, and stopping or restarting x leaves the registry
\* and the running state of y as they were; two running listeners never
\* have the same protocol object.
C21_IndependentRegistries ==
    /\ [](\A x, y \in DOMAIN hass_data :
            x # y =>
                /\ hass_data[x].port # hass_data[y].port
                /\ hass_data[x].server.protocol # 0 =>
                       hass_data[x].server.protocol # hass_data[y].server.protocol)
    /\ [][\A x, y \in DOMAIN hass_data :
            (x # y /\ (ReceivedOn(x) \/ StopsOrStarts(x))) =>
                /\ y \in DOMAIN hass_data'
                /\ hass_data'[y] = hass_data[y]
                /\ RegistryOf(y)' = RegistryOf(y)]_vars

\* Both listeners run; the same client is a heartbeat sender in the registry
\* of e1 and a wind sensor in the registry of e2, where its datagram came last.
C21_Witness ==
    /\ DOMAIN hass_data = Entries
    /\ \A e \in Entries : hass_data[e].server._running
    /\ lastEntry = "e2"
    /\ AddrStr(Addrs[1]) \in DOMAIN RegistryOf("e1") \cap DOMAIN RegistryOf("e2")
    /\ RegistryOf("e1")[AddrStr(Addrs[1])].type = "heartbeat"
    /\ RegistryOf("e2")[AddrStr(Addrs[1])].type = "wind_sensor"


-----------------------------------------------------------------------------
(* One datagram at a time (Spec) *)

\* The address an event names as its sender
EventAddr(event) ==
    IF event.event_type = "wind_data_received" THEN event.source_addr ELSE event.device_addr

-----------------------------------------------------------------------------
(* The binary parser called again (SpecParse) *)

\* C23 as stated: parse_modbus_data called twice on the same bytes returns
\* the same output both times: the same serialized envelope, or no result
\* both times.
C23_AsStated ==
    \A i, j \in Calls : presult[i].modbus_result = presult[j].modbus_result

\* The envelope of call i, parsed: its wind_data and its timestamp
WindDataOf(i) == ParsedJson(i).val.v[K_WIND_DATA]
TimestampOf(i) == ParsedJson(i).val.v[K_TIMESTAMP]

\* C23, amended: parse_modbus_data called twice on the same bytes gives the
\* same outcome both times: no result both times, or two envelopes with the
\* same wind_data.  The envelope's timestamp is the clock at each call, so
\* the two serialized texts are equal exactly when the clock reads the same;
\* nothing else is carried from one call to the next.
C23_SameUpToTimestamp ==
    \A i, j \in Calls :
        /\ ~presult[i].modbus_result.raised
        /\ Accepted(i) = Accepted(j)
        /\ ~Accepted(i) => presult[i].modbus_result = presult[j].modbus_result
        /\ Accepted(i) =>
               /\ WindDataOf(i) = WindDataOf(j)
               /\ (TimestampOf(i) = TimestampOf(j))
                      = (presult[i].modbus_result = presult[j].modbus_result)

\* The same frame was parsed at two clock values: the texts differ, the
\* wind_data does not.
C23_Witness ==
    /\ Len(presult) = 2
    /\ Accepted(1) /\ Accepted(2)
    /\ presult[1].modbus_result # presult[2].modbus_result
    /\ WindDataOf(1) = WindDataOf(2)
    /\ RegisterAt(lastData, 0) = 100

\* What the telemetry path does with the envelope of call i, taken as the
\* text of a datagram from the first address
Reparsed(i) ==
    _handle_wind_data_packet(presult[i].modbus_result.value.text, AddrStr(Addrs[1]), now, "none")

\* C24: for every four register values, the envelope the binary path
\* returns goes through the telemetry path of text datagrams unchanged: it
\* holds no control keyword, it parses as JSON, its wind_data is not empty,
\* and the one wind_data_received event carries the same four values under
\* the keys "0" to "3".
C24_RoundTrip ==
    \A i \in Calls :
        Accepted(i) =>
            /\ ~_is_text_packet(presult[i].modbus_result.value.text)
            /\ ~Reparsed(i).exc
            /\ Len(Reparsed(i).events) = 1
            /\ Reparsed(i).events[1].event_type = "wind_data_received"
            /\ Reparsed(i).events[1].wind_data = SlotsOf(lastData)
            /\ DOMAIN Reparsed(i).events[1].wind_data.v = {<<48>>, <<49>>, <<50>>, <<51>>}

C24_Witness ==
    /\ Len(presult) > 0
    /\ Accepted(1)
    /\ RegisterAt(lastData, 0) = 65535
    /\ RegisterAt(lastData, 2) = 0
    /\ Len(Reparsed(1).events) = 1
    /\ Reparsed(1).events[1].wind_data.v[<<48>>] = JInt(65535)
    /\ Reparsed(1).events[1].wind_data.v[<<50>>] = JInt(0)

\* Checksums to end a 13-byte datagram with: wrong ones, and the sum of the
\* bytes before it
Checksums(d) == { <<0, 0>>, <<170, 187>>, <<255, 255>>, SumOfBytes(d) }

\* The datagram d with its bytes 11..12 replaced
WithChecksum(d, crc) == SubSeq(d, 1, 11) \o crc

\* C25: the checksum bytes 11..12 have no influence: a 13-byte datagram and
\* any other that agrees with it on bytes 0..10 are both accepted or both
\* rejected, and when accepted they give the same four values.
C25_ChecksumIgnored ==
    \A i \in Calls :
        Len(lastData) = 13 =>
            \A crc \in Checksums(lastData) :
                LET other == parse_modbus_data(WithChecksum(lastData, crc), now)
                IN  /\ other.raised = presult[i].modbus_result.raised
                    /\ other.value.some = Accepted(i)
                    /\ Accepted(i) =>
                           json_loads(other.value.text).val.v[K_WIND_DATA] = WindDataOf(i)

\* A frame whose checksum is not the sum of its bytes was accepted, as the
\* same frame with that sum is.
C25_Witness ==
    /\ Len(presult) > 0
    /\ Accepted(1)
    /\ SubSeq(lastData, 12, 13) = <<170, 187>>
    /\ SumOfBytes(lastData) # <<170, 187>>
    /\ RegisterAt(lastData, 1) = 100
    /\ parse_modbus_data(WithChecksum(lastData, SumOfBytes(lastData)), now).value.some

-----------------------------------------------------------------------------
(* Record and event together (Spec) *)

\* The record type that goes with an event type
TypeOfEvent(event_type) ==
    CASE event_type = "wind_data_received" -> "wind_sensor"
      [] event_type = "device_heartbeat" -> "heartbeat"
      [] event_type = "device_registered" -> "registration"

-----------------------------------------------------------------------------
(* The server's fields at every suspension point (SpecServer) *)

\* C27: in every state between two steps of the event loop, the suspension
\* points inside start() and stop() included, _running is true if and only
\* if transport and protocol are both set; is_running agrees with _running;
\* and get_client_status, which reads the protocol when _running is true,
\* finds it set.
C27_FlagMatchesFields ==
    /\ _running <=> (transport # "none" /\ protocol)
    /\ transport # "none" <=> protocol
    /\ is_running(_running, transport) <=> _running
    /\ (status.called /\ status.result # <<>>) => protocol

\* get_client_status is called while stop() sleeps in its wait loop: the
\* transport is closing, and the listener still counts as running.
C27_Witness ==
    /\ status.called /\ status.result # <<>>
    /\ \E i \in Tasks : tasks[i].pc = "wait" /\ tasks[i].total_waited > 0
    /\ transport = "closing"
    /\ is_running(_running, transport)

-----------------------------------------------------------------------------
(* How start() ends (SpecServer) *)

\* C28: start() never returns normally with the listener not running.
\* Whatever the outcomes of its attempts, it returns with the listener
\* running on the one socket it gave to the transport, or it raises with the
\* listener not running; either way every socket of a failed attempt has
\* been closed.  Called while the listener runs, it returns without making
\* a socket and leaves transport, protocol and registry as they are.
C28_StartOutcome ==
    [][\A i \in Tasks :
          (tasks[i].op = "start" /\ Completes(i)) =>
              /\ tasks'[i].unclosed = 0
              /\ tasks'[i].result = "returned" =>
                     /\ _running' /\ transport' = "open" /\ protocol'
                     /\ IF tasks[i].pc = "locked"
                            THEN /\ _running
                                 /\ tasks[i].binds = 0 /\ tasks'[i].attached = 0
                                 /\ <<transport, protocol, known_clients>>'
                                        = <<transport, protocol, known_clients>>
                        ELSE /\ ~_running
                             /\ tasks[i].pc = "endpoint"
                             /\ tasks'[i].attached = 1
              /\ tasks'[i].result = "raised" =>
                     /\ ~_running' /\ transport' = "none" /\ ~protocol'
                     /\ tasks'[i].attached = 0
              /\ tasks'[i].result \in {"returned", "raised"}]_vars

\* One start() raised after its attempts failed and left no socket open; the
\* other returned at once because the listener, which has a client, was running.
C28_Witness ==
    /\ _running /\ known_clients # <<>>
    /\ \E i, j \in Tasks :
        /\ tasks[i].op = "start" /\ tasks[i].result = "raised" /\ tasks[i].unclosed = 0
        /\ tasks[j].op = "start" /\ tasks[j].result = "returned" /\ tasks[j].attached = 0

-----------------------------------------------------------------------------
(* The sensor entities of two entries (SpecEntries) *)

\* The step hands a datagram to the listener of entry e, which fires a
\* wind_data_received event.
WindEventFrom(e) ==
    /\ lastEntry' = e
    /\ hass_data' = hass_data /\ config_entries' = config_entries
    /\ e \in DOMAIN hass_data /\ hass_data[e].server.transport = "open"
    /\ Len(events') = 1 /\ events'[1].event_type = "wind_data_received"
    /\ registries' # registries \/ sensors' # sensors

\* C29 as stated: with two entries set up, each with its listener, a
\* wind_data_received event fired by the listener of one entry updates the
\* sensor entities of that entry only; the entities of the other entry are
\* as they were.
C29_AsStated ==
    [][\A e, f \in Entries :
          (e # f /\ f \in DOMAIN hass_data /\ WindEventFrom(e)) =>
              sensors'[f] = sensors[f]]_vars

-----------------------------------------------------------------------------
(* The service and the domain data (SpecEntries) *)

\* C30 as stated: after any sequence of entry setups, successful or failing
\* at any step, and unloads, the get_device_status service is registered if
\* and only if at least one entry is in the domain data; a setup that fails
\* after registering the service does not leave it registered with no entry.
C30_AsStated == services <=> (DOMAIN hass_data # {})

-----------------------------------------------------------------------------
(* The DeviceStatusSensor of one entry beside the registry of its listener: *)
(* one client sends datagrams, time passes, Home Assistant polls the        *)
(* sensor, and get_client_status is called.                                 *)

\* DeviceStatusSensor.__init__: self._offline_threshold = 10
_offline_threshold == 10

\* DeviceStatusSensor._update_status, called by async_update at clock t
_update_status(s, t) ==
    IF s._last_activity = <<>>
        THEN [s EXCEPT !.status = "waiting", !.minutes_offline = 0]
    ELSE LET current_time == t
             offline_duration == current_time - s._last_activity[1]
         IN  IF offline_duration < _offline_threshold
                 THEN [s EXCEPT !.status = "online", !.minutes_offline = 0]
             ELSE [s EXCEPT !.status = "offline",
                            !.minutes_offline = offline_duration \div 60]

\* Entry e1 has been set up: its listener runs and its entities are in hass.
InitSensor ==
    /\ known_clients = <<>>
    /\ events = <<>>
    /\ lastData = <<>>
    /\ lastAddr = <<>>
    /\ fault = "none"
    /\ propagated = FALSE
    /\ now = 0
    /\ presult = <<>>
    /\ _running = FALSE
    /\ transport = "none"
    /\ protocol = FALSE
    /\ _start_lock = Unlocked
    /\ tasks = [i \in Tasks |-> Idle]
    /\ status = NoCall
    /\ ever_recorded = {}
    /\ LET r == async_setup_entry([hass_data |-> <<>>, services |-> FALSE,
                                   registries |-> [p \in Pids |-> <<>>],
                                   sensors |-> [e \in Entries |-> NoSensors]],
                                  "e1", 8888, "ok")
       IN  /\ hass_data = r.hass.hass_data
           /\ services = r.hass.services
           /\ registries = r.hass.registries
           /\ sensors = r.hass.sensors
           /\ config_entries = [e \in Entries |-> IF e = "e1" THEN r.result ELSE "not_loaded"]
    /\ lastEntry = "none"

\* What no step of this model touches
SensorUnchanged ==
    UNCHANGED <<known_clients, fault, propagated, presult, server, hass_data, services,
                config_entries>>

\* The client's datagram arrives at the listener of e1.
SensorReceived(k) ==
    /\ now \in Times
    /\ LET r == ReceivedOf[k][1][now][1]
           p == hass_data["e1"].server.protocol
       IN  /\ registries' = [registries EXCEPT ![p] = ApplyWrites(@, r.writes)]
           /\ events' = r.events
           /\ sensors' = Dispatched(sensors, r.events, now)
    /\ lastData' = Datagrams[k]
    /\ lastAddr' = Addrs[1]
    /\ lastEntry' = "e1"
    /\ UNCHANGED now
    /\ SensorUnchanged

SensorTick ==
    /\ now < MaxNow
    /\ now' = now + 1
    /\ UNCHANGED <<registries, sensors, events, lastData, lastAddr, lastEntry>>
    /\ SensorUnchanged

\* Home Assistant polls the entity: DeviceStatusSensor.async_update
SensorPolled ==
    /\ sensors' = [sensors EXCEPT !["e1"] = _update_status(@, now)]
    /\ UNCHANGED <<registries, events, lastData, lastAddr, lastEntry, now>>
    /\ SensorUnchanged

NextSensor ==
    \/ \E k \in EntryDatagrams : SensorReceived(k)
    \/ SensorTick
    \/ SensorPolled

SpecSensor == InitSensor /\ [][NextSensor]_vars

\* What get_client_status reports for the listener of e1 now
Reported == UDPProtocol_get_client_status(RegistryOf("e1"), now).status

\* The sensor shows what a poll at this moment shows.
UpToDate == sensors["e1"] = _update_status(sensors["e1"], now)

\* C31 as stated: with one client sending datagrams, after any sequence of
\* events and polls the DeviceStatusSensor shows online exactly when
\* get_client_status reports the client online, both applying the offline
\* threshold of 60 seconds to the time since the last datagram; and once an
\* event has been received the sensor never shows waiting again.
C31_AsStated ==
    /\ (UpToDate /\ sensors["e1"]._last_activity # <<>>) =>
           \A a \in DOMAIN Reported :
               (sensors["e1"].status = "online") = Reported[a].online
    /\ sensors["e1"]._last_activity # <<>> => sensors["e1"].status # "waiting"

=============================================================================
